---------------------------- MODULE Spec2Model ----------------------------
(***************************************************************************)
(* recal: a terminal calendar annotated with events read from a rule file. *)
(* The model follows src/src/main.rs.  Text (rule lines, rule text) is a   *)
(* sequence of one-character strings; a NaiveDate is a record              *)
(* [year, month, day]; an Option is <<>> (None) or <<v>> (Some(v)).        *)
(***************************************************************************)
EXTENDS Integers, Sequences, FiniteSets, TLC

VARIABLES cfg, file, today, pc, events, evaluated, row, shown, grid, listed,
          call, ret

vars ==
    <<cfg, file, today, pc, events, evaluated, row, shown, grid, listed, call, ret>>

---------------------------------------------------------------------------
(* Option<T> *)

None == <<>>

Some(v) == <<v>>

IsSome(o) == o # <<>>

Unwrap(o) == o[1]

---------------------------------------------------------------------------
(* Rust integer division and remainder: truncation toward zero. *)

TruncDiv(a, b) == IF a >= 0 THEN a \div b ELSE -((-a) \div b)

TruncRem(a, b) == a - b * TruncDiv(a, b)

---------------------------------------------------------------------------
(* chrono::NaiveDate, proleptic Gregorian calendar. *)

IsLeap(y) == (y % 4 = 0 /\ y % 100 # 0) \/ y % 400 = 0

MonthLen(y, m) ==
    IF m = 2 THEN (IF IsLeap(y) THEN 29 ELSE 28)
    ELSE IF m \in {4, 6, 9, 11} THEN 30 ELSE 31

Date(y, m, d) == [year |-> y, month |-> m, day |-> d]

\* NaiveDate::from_ymd_opt: None unless (y, m, d) is a calendar date.
from_ymd_opt(y, m, d) ==
    IF m >= 1 /\ m <= 12 /\ d >= 1 /\ d <= MonthLen(y, m)
    THEN Some([year |-> y, month |-> m, day |-> d])
    ELSE None

\* Days since 1970-01-01 of a calendar date.
DayNumber(date) ==
    LET y   == IF date.month <= 2 THEN date.year - 1 ELSE date.year
        era == y \div 400
        yoe == y - era * 400
        mp  == (date.month + 9) % 12
        doy == (153 * mp + 2) \div 5 + date.day - 1
        doe == yoe * 365 + yoe \div 4 - yoe \div 100 + doy
    IN  era * 146097 + doe - 719468

\* The calendar date of a day number.
DateOfDayNumber(z) ==
    LET zz  == z + 719468
        era == zz \div 146097
        doe == zz - era * 146097
        yoe == (doe - doe \div 1460 + doe \div 36524 - doe \div 146096) \div 365
        y   == yoe + era * 400
        doy == doe - (365 * yoe + yoe \div 4 - yoe \div 100)
        mp  == (5 * doy + 2) \div 153
        d   == doy - (153 * mp + 2) \div 5 + 1
        m   == IF mp < 10 THEN mp + 3 ELSE mp - 9
    IN  [year |-> IF m <= 2 THEN y + 1 ELSE y, month |-> m, day |-> d]

\* date + Duration::days(n)
AddDays(date, n) == DateOfDayNumber(DayNumber(date) + n)

\* Datelike::weekday as number_from_monday: 1 = Mon .. 7 = Sun.
WeekdayOf(date) == ((DayNumber(date) + 3) % 7) + 1

DateLess(a, b) == DayNumber(a) < DayNumber(b)

---------------------------------------------------------------------------
(* Text: str::trim, find, split, parse. *)

Digits == <<"0", "1", "2", "3", "4", "5", "6", "7", "8", "9">>

IsDigit(c) == \E i \in 1..10 : Digits[i] = c

\* char::to_digit(10) of a decimal digit
DigitVal(c) == (CHOOSE i \in 1..10 : Digits[i] = c) - 1

IsSpace(c) == c \in {" ", "\t"}

RECURSIVE TrimStart(_)
TrimStart(s) ==
    IF s # <<>> /\ IsSpace(Head(s)) THEN TrimStart(Tail(s)) ELSE s

RECURSIVE TrimEnd(_)
TrimEnd(s) ==
    IF s # <<>> /\ IsSpace(s[Len(s)])
    THEN TrimEnd(SubSeq(s, 1, Len(s) - 1)) ELSE s

Trim(s) == TrimEnd(TrimStart(s))

\* str::find(c): index of the first c (1-based), 0 when absent.
Find(s, c) ==
    IF \E i \in 1..Len(s) : s[i] = c
    THEN CHOOSE i \in 1..Len(s) : s[i] = c /\ \A j \in 1..(i - 1) : s[j] # c
    ELSE 0

Count(s, c) == Cardinality({i \in 1..Len(s) : s[i] = c})

\* the text after position i (rule[i..] for a 0-based byte index i)
From(s, i) == SubSeq(s, i + 1, Len(s))

\* str::split(c): the pieces between the separators, in order.
RECURSIVE Split(_, _)
Split(s, c) ==
    LET p == Find(s, c)
    IN  IF p = 0 THEN <<s>>
        ELSE <<SubSeq(s, 1, p - 1)>> \o Split(From(s, p), c)

AllDigits(s) == \A i \in 1..Len(s) : IsDigit(s[i])

RECURSIVE DigitsVal(_)
DigitsVal(s) ==
    IF s = <<>> THEN 0
    ELSE 10 * DigitsVal(SubSeq(s, 1, Len(s) - 1)) + DigitVal(s[Len(s)])

\* str::parse::<u32>: an optional '+', then one or more decimal digits.
\* (Texts of the model stay under ten digits, below the overflow of u32.)
ParseU32(s) ==
    LET body == IF s # <<>> /\ s[1] = "+" THEN Tail(s) ELSE s
    IN  IF body = <<>> \/ ~AllDigits(body) THEN None
        ELSE Some(DigitsVal(body))

\* str::parse::<i64>: an optional '+' or '-', then one or more digits.
ParseI64(s) ==
    LET signed == s # <<>> /\ s[1] \in {"+", "-"}
        body   == IF signed THEN Tail(s) ELSE s
    IN  IF body = <<>> \/ ~AllDigits(body) THEN None
        ELSE IF signed /\ s[1] = "-" THEN Some(-DigitsVal(body))
        ELSE Some(DigitsVal(body))

\* decimal text of a natural number
RECURSIVE ToStr(_)
ToStr(n) ==
    IF n < 10 THEN <<Digits[n + 1]>> ELSE ToStr(n \div 10) \o <<Digits[(n % 10) + 1]>>

\* str::to_lowercase on ASCII letters
UpperCase ==
    <<"A", "B", "C", "D", "E", "F", "G", "H", "I", "J", "K", "L", "M",
      "N", "O", "P", "Q", "R", "S", "T", "U", "V", "W", "X", "Y", "Z">>

LowerCase ==
    <<"a", "b", "c", "d", "e", "f", "g", "h", "i", "j", "k", "l", "m",
      "n", "o", "p", "q", "r", "s", "t", "u", "v", "w", "x", "y", "z">>

to_lowercase(s) ==
    [i \in 1..Len(s) |->
        IF \E k \in 1..Len(UpperCase) : UpperCase[k] = s[i]
        THEN LowerCase[CHOOSE k \in 1..Len(UpperCase) : UpperCase[k] = s[i]]
        ELSE s[i]]

\* format!("{:2}", n): decimal text, padded with spaces on the left to width 2
Width2(n) == IF n < 10 THEN <<" ">> \o ToStr(n) ELSE ToStr(n)

---------------------------------------------------------------------------
(* calculate_easter_date *)

\* calculate_easter_date without the correction term m
calculate_easter_date_no_m(year) ==
    IF year < 1583 THEN None
    ELSE
    LET a == TruncRem(year, 19)
        b == TruncDiv(year, 100)
        c == TruncRem(year, 100)
        d == TruncDiv(b, 4)
        e == TruncRem(b, 4)
        f == TruncDiv(b + 8, 25)
        g == TruncDiv(b - f + 1, 3)
        h == TruncRem(19 * a + b - d - g + 15, 30)
        i == TruncDiv(c, 4)
        k == TruncRem(c, 4)
        l == TruncRem(32 + 2 * e + 2 * i - h - k, 7)
        month == TruncDiv(h + l + 114, 31)
        day   == TruncRem(h + l + 114, 31) + 1
    IN  from_ymd_opt(year, month, day)

calculate_easter_date(year) ==
    IF year < 1583 THEN None
    ELSE
    LET a == TruncRem(year, 19)
        b == TruncDiv(year, 100)
        c == TruncRem(year, 100)
        d == TruncDiv(b, 4)
        e == TruncRem(b, 4)
        f == TruncDiv(b + 8, 25)
        g == TruncDiv(b - f + 1, 3)
        h == TruncRem(19 * a + b - d - g + 15, 30)
        i == TruncDiv(c, 4)
        k == TruncRem(c, 4)
        l == TruncRem(32 + 2 * e + 2 * i - h - k, 7)
        m == TruncDiv(a + 11 * h + 22 * l, 451)
        month == TruncDiv(h + l - 7 * m + 114, 31)
        day   == TruncRem(h + l - 7 * m + 114, 31) + 1
    IN  from_ymd_opt(year, month, day)

---------------------------------------------------------------------------
(* find_nth_dow *)

\* the loop that finds the first occurrence of the target weekday
RECURSIVE FirstOccurrence(_, _, _)
FirstOccurrence(current_date, month, target_weekday) ==
    IF current_date.month = month /\ WeekdayOf(current_date) # target_weekday
    THEN FirstOccurrence(AddDays(current_date, 1), month, target_weekday)
    ELSE current_date

\* find_nth_dow without the step back of one week for n = 5
find_nth_dow_no_last(year, month, dow_num, n) ==
    IF n = 0 \/ n > 5 \/ dow_num = 0 \/ dow_num > 7 THEN None
    ELSE
    LET first_day_of_month == from_ymd_opt(year, month, 1)
    IN  IF ~IsSome(first_day_of_month) THEN None
        ELSE
        LET first  == FirstOccurrence(Unwrap(first_day_of_month), month, dow_num)
            jumped == AddDays(first, 7 * (n - 1))
        IN  IF first.month = month /\ jumped.month = month
            THEN Some(jumped) ELSE None

\* find_nth_dow jumping n weeks instead of n - 1
find_nth_dow_n_weeks(year, month, dow_num, n) ==
    IF n = 0 \/ n > 5 \/ dow_num = 0 \/ dow_num > 7 THEN None
    ELSE
    LET first_day_of_month == from_ymd_opt(year, month, 1)
    IN  IF ~IsSome(first_day_of_month) THEN None
        ELSE
        LET first  == FirstOccurrence(Unwrap(first_day_of_month), month, dow_num)
            jumped == AddDays(first, 7 * n)
            fixed  == IF n = 5 /\ jumped.month # month
                      THEN AddDays(jumped, -7) ELSE jumped
        IN  IF first.month = month /\ fixed.month = month
            THEN Some(fixed) ELSE None

find_nth_dow(year, month, dow_num, n) ==
    IF n = 0 \/ n > 5 \/ dow_num = 0 \/ dow_num > 7 THEN None
    ELSE
    LET first_day_of_month == from_ymd_opt(year, month, 1)
    IN  IF ~IsSome(first_day_of_month) THEN None
        ELSE
        LET first  == FirstOccurrence(Unwrap(first_day_of_month), month, dow_num)
            jumped == AddDays(first, 7 * (n - 1))
            fixed  == IF n = 5 /\ jumped.month # month
                      THEN AddDays(jumped, -7) ELSE jumped
        IN  IF first.month = month /\ fixed.month = month
            THEN Some(fixed) ELSE None

---------------------------------------------------------------------------
(* calculate_date_from_rule *)

\* 1. Easter relative rule: E, E+N, E-N, EN
EasterRule(rule, year) ==
    LET offset == IF rule = <<"E">> THEN Some(0) ELSE ParseI64(From(rule, 1))
        easter == calculate_easter_date(year)
    IN  IF ~IsSome(offset) THEN None
        ELSE IF ~IsSome(easter) THEN None
        ELSE Some(AddDays(Unwrap(easter), Unwrap(offset)))

\* NthDowRule reading DOW as 0 = Monday .. 6 = Sunday
NthDowRule_shifted(rule, year) ==
    LET hash_pos  == Find(rule, "#")
        date_part == SubSeq(rule, 1, hash_pos - 1)
        n_str     == From(rule, hash_pos)
        parts     == Split(date_part, "/")
        month     == ParseU32(parts[1])
        dow_raw   == IF Len(parts) >= 2 THEN ParseU32(parts[2]) ELSE None
        n         == ParseU32(n_str)
    IN  IF ~IsSome(month) \/ ~IsSome(dow_raw) \/ ~IsSome(n) THEN None
        ELSE find_nth_dow(year, Unwrap(month), Unwrap(dow_raw) + 1, Unwrap(n))

\* 2. Nth day of week rule: MM/DOW#N
NthDowRule(rule, year) ==
    LET hash_pos  == Find(rule, "#")
        date_part == SubSeq(rule, 1, hash_pos - 1)
        n_str     == From(rule, hash_pos)
        parts     == Split(date_part, "/")
        month     == ParseU32(parts[1])
        dow_raw   == IF Len(parts) >= 2 THEN ParseU32(parts[2]) ELSE None
        n         == ParseU32(n_str)
    IN  IF ~IsSome(month) \/ ~IsSome(dow_raw) \/ ~IsSome(n) THEN None
        ELSE LET dow_num == IF Unwrap(dow_raw) = 0 THEN 7 ELSE Unwrap(dow_raw)
             IN  find_nth_dow(year, Unwrap(month), dow_num, Unwrap(n))

\* ConditionBlock that adds the offset for '-' as it does for '+'
ConditionBlock_no_negate(condition_part, target_date) ==
    LET first          == condition_part[1]
        operator       == condition_part[2]
        offset         == ParseI64(From(condition_part, 2))
        target_dow_num == DigitVal(first)
        target_weekday == IF target_dow_num = 0 THEN 7 ELSE target_dow_num
    IN  IF ~IsDigit(first) THEN [returned |-> TRUE, value |-> None]
        ELSE IF ~IsSome(offset) THEN [returned |-> TRUE, value |-> None]
        ELSE IF target_dow_num > 6 THEN [returned |-> TRUE, value |-> None]
        ELSE IF WeekdayOf(target_date) = target_weekday
             THEN IF operator \in {"+", "-"}
                  THEN [returned |-> TRUE,
                        value |-> Some(AddDays(target_date, Unwrap(offset)))]
                  ELSE [returned |-> TRUE, value |-> None]
             ELSE [returned |-> FALSE, value |-> None]

\* the block taken when the condition part has at least three characters;
\* [returned |-> TRUE] is a `return` out of calculate_date_from_rule
ConditionBlock(condition_part, target_date) ==
    LET first          == condition_part[1]
        operator       == condition_part[2]
        offset         == ParseI64(From(condition_part, 2))
        target_dow_num == DigitVal(first)
        target_weekday == IF target_dow_num = 0 THEN 7 ELSE target_dow_num
    IN  IF ~IsDigit(first) THEN [returned |-> TRUE, value |-> None]
        ELSE IF ~IsSome(offset) THEN [returned |-> TRUE, value |-> None]
        ELSE IF target_dow_num > 6 THEN [returned |-> TRUE, value |-> None]
        ELSE IF WeekdayOf(target_date) = target_weekday
             THEN IF operator = "+"
                  THEN [returned |-> TRUE,
                        value |-> Some(AddDays(target_date, Unwrap(offset)))]
                  ELSE IF operator = "-"
                  THEN [returned |-> TRUE,
                        value |-> Some(AddDays(target_date, -Unwrap(offset)))]
                  ELSE [returned |-> TRUE, value |-> None]
             ELSE [returned |-> FALSE, value |-> None]

\* 3. Conditional rule: MM/DD?D[+-]N, and the shorthand MM/DD? / MM/DD?YYYY
ConditionalRule(rule, year) ==
    LET q_pos          == Find(rule, "?")
        date_part      == SubSeq(rule, 1, q_pos - 1)
        condition_part == From(rule, q_pos)
        parts          == Split(date_part, "/")
        month          == ParseU32(parts[1])
        day            == IF Len(parts) >= 2 THEN ParseU32(parts[2]) ELSE None
    IN  IF ~IsSome(month) \/ ~IsSome(day) THEN None
        ELSE
        LET target == from_ymd_opt(year, Unwrap(month), Unwrap(day))
        IN  IF ~IsSome(target) THEN None
            ELSE
            LET block == IF Len(condition_part) >= 3
                         THEN ConditionBlock(condition_part, Unwrap(target))
                         ELSE [returned |-> FALSE, value |-> None]
            IN  IF block.returned THEN block.value
                ELSE IF condition_part = <<>> \/ AllDigits(condition_part)
                THEN target
                ELSE None

\* AnnualRule reading the rule as DD/MM
AnnualRule_swapped(rule, year) ==
    LET parts == Split(rule, "/")
        day   == ParseU32(parts[1])
        month == ParseU32(parts[2])
    IN  IF ~IsSome(month) \/ ~IsSome(day) THEN None
        ELSE from_ymd_opt(year, Unwrap(month), Unwrap(day))

\* 4. Annual rule: MM/DD
AnnualRule(rule, year) ==
    LET parts == Split(rule, "/")
        month == ParseU32(parts[1])
        day   == ParseU32(parts[2])
    IN  IF ~IsSome(month) \/ ~IsSome(day) THEN None
        ELSE from_ymd_opt(year, Unwrap(month), Unwrap(day))

\* calculate_date_from_rule that tests '?' before '#'
calculate_date_from_rule_cond_first(rule_text, year) ==
    LET rule == Trim(rule_text)
    IN  IF rule # <<>> /\ rule[1] = "E" THEN EasterRule(rule, year)
        ELSE IF Find(rule, "?") # 0 THEN ConditionalRule(rule, year)
        ELSE IF Find(rule, "#") # 0 THEN NthDowRule(rule, year)
        ELSE IF Count(rule, "/") = 1 THEN AnnualRule(rule, year)
        ELSE None

calculate_date_from_rule(rule_text, year) ==
    LET rule == Trim(rule_text)
    IN  IF rule # <<>> /\ rule[1] = "E" THEN EasterRule(rule, year)
        ELSE IF Find(rule, "#") # 0 THEN NthDowRule(rule, year)
        ELSE IF Find(rule, "?") # 0 THEN ConditionalRule(rule, year)
        ELSE IF Count(rule, "/") = 1 THEN AnnualRule(rule, year)
        ELSE None

---------------------------------------------------------------------------
(* parse_fixed_date_rule: NaiveDate::parse_from_str with the formats        *)
(* %d-%m-%Y, %m/%d/%Y and %Y-%m-%d, tried in this order.                    *)

\* a numeric field of a format: one to `width` decimal digits
ParseField(s, width) ==
    IF s # <<>> /\ Len(s) <= width /\ AllDigits(s) THEN Some(DigitsVal(s)) ELSE None

\* one format: three numeric fields separated by sep, covering the whole
\* text; yi, mi, di are the positions of year, month and day
ParseDateFormat(rule, sep, yi, mi, di) ==
    LET parts == Split(rule, sep)
    IN  IF Len(parts) # 3 THEN None
        ELSE
        LET y == ParseField(parts[yi], 4)
            m == ParseField(parts[mi], 2)
            d == ParseField(parts[di], 2)
        IN  IF ~IsSome(y) \/ ~IsSome(m) \/ ~IsSome(d) THEN None
            ELSE from_ymd_opt(Unwrap(y), Unwrap(m), Unwrap(d))

parse_fixed_date_rule(rule) ==
    LET dmy == ParseDateFormat(rule, "-", 3, 2, 1)
        mdy == ParseDateFormat(rule, "/", 3, 1, 2)
        ymd == ParseDateFormat(rule, "-", 1, 2, 3)
    IN  IF IsSome(dmy) THEN dmy
        ELSE IF IsSome(mdy) THEN mdy
        ELSE ymd

---------------------------------------------------------------------------
(* load_events *)

\* end_year_check that leaves num_months out: the start year
end_year_check_start(config) ==
    LET total_months_from_epoch == config.start_year * 12 + config.start_month
    IN  TruncDiv(total_months_from_epoch - 1, 12)

\* end_year_check as the year of the last displayed month
end_year_check_last_month(config) ==
    LET total_months_from_epoch ==
            config.start_year * 12 + config.start_month + config.num_months
    IN  TruncDiv(total_months_from_epoch - 2, 12)

\* the latest year checked for recurring events
end_year_check(config) ==
    LET total_months_from_epoch ==
            config.start_year * 12 + config.start_month + config.num_months
    IN  TruncDiv(total_months_from_epoch - 1, 12)

\* MetaField that keeps an empty field as the empty string
MetaField_keep_empty(meta_parts, i) ==
    IF Len(meta_parts) >= i THEN Some(meta_parts[i]) ELSE None

\* an unset metadata field, or the trimmed field
MetaField(meta_parts, i) ==
    IF Len(meta_parts) >= i /\ meta_parts[i] # <<>> THEN Some(meta_parts[i]) ELSE None

\* str::split_once(char::is_whitespace): the text after the first whitespace
AfterFirstSpace(s) ==
    IF \E i \in 1..Len(s) : IsSpace(s[i])
    THEN Some(From(s, CHOOSE i \in 1..Len(s) :
                        IsSpace(s[i]) /\ \A j \in 1..(i - 1) : ~IsSpace(s[j])))
    ELSE None

\* the metadata and description of a line: the text after the first ';'
ParseRest(rest) ==
    LET end_bracket == Find(rest, "]")
    IN  IF rest # <<>> /\ rest[1] = "[" /\ end_bracket # 0
        THEN LET meta_block == SubSeq(rest, 2, end_bracket - 1)
                 split      == Split(meta_block, ",")
                 meta_parts == [i \in 1..Len(split) |-> Trim(split[i])]
             IN  [category    |-> MetaField(meta_parts, 1),
                  fg_color    |-> MetaField(meta_parts, 2),
                  bg_color    |-> MetaField(meta_parts, 3),
                  description |-> Trim(From(rest, end_bracket))]
        ELSE [category |-> None, fg_color |-> None, bg_color |-> None,
              description |-> rest]

\* one trimmed, non-comment line: rule text, description and metadata
ParseLine(line) ==
    LET semi      == Find(line, ";")
        rule_part == Trim(IF semi = 0 THEN line ELSE SubSeq(line, 1, semi - 1))
        meta      == IF semi # 0
                     THEN ParseRest(Trim(From(line, semi)))
                     ELSE [category |-> None, fg_color |-> None, bg_color |-> None,
                           description |->
                               IF IsSome(AfterFirstSpace(rule_part))
                               THEN Trim(Unwrap(AfterFirstSpace(rule_part)))
                               ELSE <<>>]
    IN  [rule_part   |-> rule_part,
         description |-> meta.description,
         category    |-> meta.category,
         fg_color    |-> meta.fg_color,
         bg_color    |-> meta.bg_color]

Str_bday == <<"b", "d", "a", "y">>

Str_anni == <<"a", "n", "n", "i">>

Event(date, p, original_year) ==
    [date          |-> date,
     description   |-> p.description,
     category      |-> p.category,
     fg_color      |-> p.fg_color,
     bg_color      |-> p.bg_color,
     original_year |-> original_year]

\* ExpandYears that recurs an anniversary in the years before its base year
RECURSIVE ExpandYears_any_year(_, _, _, _, _, _, _)
ExpandYears_any_year(p, base_date, is_anniversary_rule, year, last_year, added_years, acc) ==
    IF year > last_year THEN acc
    ELSE
    LET date_to_add ==
            IF is_anniversary_rule
            THEN from_ymd_opt(year, Unwrap(base_date).month, Unwrap(base_date).day)
            ELSE IF ~IsSome(base_date)
                 THEN calculate_date_from_rule(p.rule_part, year)
                 ELSE None
        original_year_to_store ==
            IF is_anniversary_rule THEN Some(Unwrap(base_date).year) ELSE None
    IN  IF IsSome(date_to_add) /\ Unwrap(date_to_add) \notin added_years
        THEN ExpandYears_any_year(p, base_date, is_anniversary_rule, year + 1,
                                  last_year, added_years \cup {Unwrap(date_to_add)},
                                  Append(acc, Event(Unwrap(date_to_add), p,
                                                    original_year_to_store)))
        ELSE ExpandYears_any_year(p, base_date, is_anniversary_rule, year + 1,
                                  last_year, added_years, acc)

\* the loop over years_to_check, from `year` to last_year
RECURSIVE ExpandYears(_, _, _, _, _, _, _)
ExpandYears(p, base_date, is_anniversary_rule, year, last_year, added_years, acc) ==
    IF year > last_year THEN acc
    ELSE
    LET recurs == is_anniversary_rule /\ year >= Unwrap(base_date).year
        date_to_add ==
            IF is_anniversary_rule
            THEN IF recurs
                 THEN from_ymd_opt(year, Unwrap(base_date).month, Unwrap(base_date).day)
                 ELSE None
            ELSE IF ~IsSome(base_date)
                 THEN calculate_date_from_rule(p.rule_part, year)
                 ELSE None
        original_year_to_store ==
            IF recurs THEN Some(Unwrap(base_date).year) ELSE None
    IN  IF IsSome(date_to_add) /\ Unwrap(date_to_add) \notin added_years
        THEN ExpandYears(p, base_date, is_anniversary_rule, year + 1, last_year,
                         added_years \cup {Unwrap(date_to_add)},
                         Append(acc, Event(Unwrap(date_to_add), p, original_year_to_store)))
        ELSE ExpandYears(p, base_date, is_anniversary_rule, year + 1, last_year,
                         added_years, acc)

\* ExpandLine that recurs "bday" rules only
ExpandLine_bday_only(raw_line, config) ==
    LET line == Trim(raw_line)
    IN  IF line = <<>> \/ line[1] = "#" THEN <<>>
        ELSE
        LET p         == ParseLine(line)
            base_date == parse_fixed_date_rule(p.rule_part)
            is_anniversary_rule ==
                /\ IsSome(base_date)
                /\ p.category = Some(Str_bday)
        IN  IF IsSome(base_date) /\ ~is_anniversary_rule
            THEN IF /\ Unwrap(base_date).year >= config.start_year
                    /\ Unwrap(base_date).year <= end_year_check(config)
                 THEN <<Event(Unwrap(base_date), p, None)>>
                 ELSE <<>>
            ELSE ExpandYears(p, base_date, is_anniversary_rule, config.start_year,
                             end_year_check(config), {}, <<>>)

\* ExpandLine that emits a one-shot fixed date whatever its year
ExpandLine_any_year(raw_line, config) ==
    LET line == Trim(raw_line)
    IN  IF line = <<>> \/ line[1] = "#" THEN <<>>
        ELSE
        LET p         == ParseLine(line)
            base_date == parse_fixed_date_rule(p.rule_part)
            is_anniversary_rule ==
                /\ IsSome(base_date)
                /\ p.category \in {Some(Str_bday), Some(Str_anni)}
        IN  IF IsSome(base_date) /\ ~is_anniversary_rule
            THEN <<Event(Unwrap(base_date), p, None)>>
            ELSE ExpandYears(p, base_date, is_anniversary_rule, config.start_year,
                             end_year_check(config), {}, <<>>)

\* the Events one line of the file contributes, in the order pushed
ExpandLine(raw_line, config) ==
    LET line == Trim(raw_line)
    IN  IF line = <<>> \/ line[1] = "#" THEN <<>>
        ELSE
        LET p         == ParseLine(line)
            base_date == parse_fixed_date_rule(p.rule_part)
            is_anniversary_rule ==
                /\ IsSome(base_date)
                /\ p.category \in {Some(Str_bday), Some(Str_anni)}
        IN  IF IsSome(base_date) /\ ~is_anniversary_rule
            THEN IF /\ Unwrap(base_date).year >= config.start_year
                    /\ Unwrap(base_date).year <= end_year_check(config)
                 THEN <<Event(Unwrap(base_date), p, None)>>
                 ELSE <<>>
            ELSE ExpandYears(p, base_date, is_anniversary_rule, config.start_year,
                             end_year_check(config), {}, <<>>)

\* InsertByDate that puts an Event before the Events of its date
RECURSIVE InsertByDate_before_equal(_, _)
InsertByDate_before_equal(sorted, e) ==
    IF sorted = <<>> THEN <<e>>
    ELSE IF ~DateLess(sorted[Len(sorted)].date, e.date)
    THEN Append(InsertByDate_before_equal(SubSeq(sorted, 1, Len(sorted) - 1), e),
                sorted[Len(sorted)])
    ELSE Append(sorted, e)

\* Vec::sort_by_key(|e| e.date): a stable sort
RECURSIVE InsertByDate(_, _)
InsertByDate(sorted, e) ==
    IF sorted = <<>> THEN <<e>>
    ELSE IF DateLess(e.date, sorted[Len(sorted)].date)
    THEN Append(InsertByDate(SubSeq(sorted, 1, Len(sorted) - 1), e), sorted[Len(sorted)])
    ELSE Append(sorted, e)

RECURSIVE SortByDate(_)
SortByDate(es) ==
    IF es = <<>> THEN <<>>
    ELSE InsertByDate(SortByDate(SubSeq(es, 1, Len(es) - 1)), es[Len(es)])

\* ExpandLines with one set of added dates for the whole file
RECURSIVE ExpandLines_one_set(_, _)
ExpandLines_one_set(lines, config) ==
    IF lines = <<>> THEN <<>>
    ELSE LET before == ExpandLines_one_set(SubSeq(lines, 1, Len(lines) - 1), config)
         IN  before \o SelectSeq(ExpandLine(lines[Len(lines)].text, config),
                                 LAMBDA e : \A k \in 1..Len(before) :
                                                before[k].date # e.date)

\* ExpandLines that stops at the first line that yields no Event
RECURSIVE ExpandLines_abort(_, _)
ExpandLines_abort(lines, config) ==
    IF lines = <<>> THEN <<>>
    ELSE LET before == ExpandLines_abort(SubSeq(lines, 1, Len(lines) - 1), config)
         IN  IF \E i \in 1..(Len(lines) - 1) : ExpandLine(lines[i].text, config) = <<>>
             THEN before
             ELSE before \o ExpandLine(lines[Len(lines)].text, config)

RECURSIVE ExpandLines(_, _)
ExpandLines(lines, config) ==
    IF lines = <<>> THEN <<>>
    ELSE ExpandLines(SubSeq(lines, 1, Len(lines) - 1), config)
         \o ExpandLine(lines[Len(lines)].text, config)

load_events(lines, config) == SortByDate(ExpandLines(lines, config))

\* the calls calculate_date_from_rule(rule_part, year) one line makes, as
\* <<rule_part, year>>: none for a blank or comment line, none for a line
\* whose rule is a fixed date (it is skipped by `continue`, or recurs from
\* its base date), one per year of years_to_check otherwise
CallsOfLine(raw_line, config) ==
    LET line == Trim(raw_line)
    IN  IF line = <<>> \/ line[1] = "#" THEN {}
        ELSE
        LET p         == ParseLine(line)
            base_date == parse_fixed_date_rule(p.rule_part)
        IN  IF IsSome(base_date) THEN {}
            ELSE {<<p.rule_part, year>> :
                    year \in config.start_year..end_year_check(config)}

\* the calls of calculate_date_from_rule made by load_events
RuleCallsOf(lines, config) ==
    UNION {CallsOfLine(lines[i].text, config) : i \in 1..Len(lines)}

---------------------------------------------------------------------------
(* display_calendars, display_month_row *)

months_per_row(config) ==
    IF config.num_months = 1 THEN 1 ELSE config.num_columns

\* num_rows rounding down
num_rows_floor(config) ==
    config.num_months \div months_per_row(config)

num_rows(config) ==
    (config.num_months + months_per_row(config) - 1) \div months_per_row(config)

\* the first day of the month at offset idx of the window: None when
\* from_ymd_opt refuses the computed month (the unwrap then panics)
MonthAt(config, idx) ==
    LET total_months_from_epoch ==
            config.start_year * 12 + config.start_month + idx - 1
        year  == TruncDiv(total_months_from_epoch, 12)
        month == TruncRem(total_months_from_epoch, 12) + 1
    IN  from_ymd_opt(year, month, 1)

\* the months of one row, start_idx <= idx < end_idx
RowDates(config, start_idx, end_idx) ==
    [k \in 1..(end_idx - start_idx) |-> MonthAt(config, start_idx + k - 1)]

---------------------------------------------------------------------------
(* ANSI escape sequences.  "ESC[31m" stands for the text \x1b[31m; in a     *)
(* printed text an escape sequence is one element.                         *)

BOLD_CODE == "ESC[1m"

RESET_CODE == "ESC[0m"

\* the eight colour names of get_ansi_color_code, in the order of the match
Palette ==
    << <<"b", "l", "a", "c", "k">>, <<"r", "e", "d">>,
       <<"g", "r", "e", "e", "n">>, <<"y", "e", "l", "l", "o", "w">>,
       <<"b", "l", "u", "e">>, <<"m", "a", "g", "e", "n", "t", "a">>,
       <<"c", "y", "a", "n">>, <<"w", "h", "i", "t", "e">> >>

FgCodes ==
    <<"ESC[30m", "ESC[31m", "ESC[32m", "ESC[33m",
      "ESC[34m", "ESC[35m", "ESC[36m", "ESC[37m">>

BgCodes ==
    <<"ESC[40m", "ESC[41m", "ESC[42m", "ESC[43m",
      "ESC[44m", "ESC[45m", "ESC[46m", "ESC[47m">>

\* get_ansi_color_code answering red for a name it does not know
get_ansi_color_code_red(color_name, is_fg) ==
    LET name == to_lowercase(color_name)
        codes == IF is_fg THEN FgCodes ELSE BgCodes
    IN  IF \E i \in 1..Len(Palette) : Palette[i] = name
        THEN Some(codes[CHOOSE i \in 1..Len(Palette) : Palette[i] = name])
        ELSE Some(codes[2])

get_ansi_color_code(color_name, is_fg) ==
    LET name == to_lowercase(color_name)
        codes == IF is_fg THEN FgCodes ELSE BgCodes
    IN  IF \E i \in 1..Len(Palette) : Palette[i] = name
        THEN Some(codes[CHOOSE i \in 1..Len(Palette) : Palette[i] = name])
        ELSE None

\* color.as_ref().and_then(|c| get_ansi_color_code(c, is_fg)).unwrap_or(""):
\* the escape sequence of an Event's colour field, the empty text when the
\* field is unset or names no colour
ColorCode(color, is_fg) ==
    IF ~IsSome(color) THEN <<>>
    ELSE LET code == get_ansi_color_code(Unwrap(color), is_fg)
         IN  IF IsSome(code) THEN <<Unwrap(code)>> ELSE <<>>

---------------------------------------------------------------------------
(* days_in_month, weeks_in_month, get_week_start_day, iso_week *)

days_in_month(year, month) ==
    LET next == Date(IF month = 12 THEN year + 1 ELSE year,
                     IF month = 12 THEN 1 ELSE month + 1, 1)
    IN  DayNumber(next) - DayNumber(Date(year, month, 1))

\* Weekday::num_days_from_monday / num_days_from_sunday of the first day
WeekOffset(month_start, monday_first) ==
    IF monday_first THEN WeekdayOf(month_start) - 1 ELSE WeekdayOf(month_start) % 7

\* weeks_in_month rounding down
weeks_in_month_floor(month_start, monday_first) ==
    LET offset == WeekOffset(month_start, monday_first)
        days   == days_in_month(month_start.year, month_start.month)
    IN  (offset + days) \div 7

weeks_in_month(month_start, monday_first) ==
    LET offset == WeekOffset(month_start, monday_first)
        days   == days_in_month(month_start.year, month_start.month)
    IN  (offset + days + 6) \div 7

get_week_start_day(month_start, week_num, monday_first) ==
    LET offset           == WeekOffset(month_start, monday_first)
        start_day_offset == week_num * 7
    IN  start_day_offset - offset + 1

\* the number of ISO-8601 weeks of a year
IsoWeeksInYear(y) ==
    LET jan1 == WeekdayOf(Date(y, 1, 1))
    IN  IF jan1 = 4 \/ (IsLeap(y) /\ jan1 = 3) THEN 53 ELSE 52

\* Datelike::iso_week().week()
IsoWeek(date) ==
    LET ordinal == DayNumber(date) - DayNumber(Date(date.year, 1, 1)) + 1
        w       == (ordinal - WeekdayOf(date) + 10) \div 7
    IN  IF w < 1 THEN IsoWeeksInYear(date.year - 1)
        ELSE IF w > IsoWeeksInYear(date.year) THEN 1
        ELSE w

---------------------------------------------------------------------------
(* print_week_row *)

\* EventForDay that finds the last Event of the day
EventForDay_last(events_vec, current_date) ==
    LET on_day == SelectSeq(events_vec, LAMBDA e : e.date = current_date)
    IN  IF on_day = <<>> THEN None ELSE Some(on_day[Len(on_day)])

\* events.iter().find(|e| e.date == current_date)
EventForDay(events_vec, current_date) ==
    LET on_day == SelectSeq(events_vec, LAMBDA e : e.date = current_date)
    IN  IF on_day = <<>> THEN None ELSE Some(on_day[1])

\* if is_weekend { .. }: the weekend colour, and bold with an Event
WeekendStep(is_weekend, has_event) ==
    IF is_weekend
    THEN <<"ESC[31m">> \o (IF has_event THEN <<BOLD_CODE>> ELSE <<>>)
    ELSE <<>>

\* EventStep that styles weekend cells as well
EventStep_on_weekend(has_event, is_weekend, fg_code, bg_code) ==
    IF has_event
    THEN IF fg_code # <<>> \/ bg_code # <<>>
         THEN bg_code \o fg_code \o <<BOLD_CODE>>
         ELSE IF bg_code = <<>> THEN <<"ESC[7m">> ELSE <<>>
    ELSE <<>>

\* EventStep that inverts every Event cell, coloured or not
EventStep_always_invert(has_event, is_weekend, fg_code, bg_code) ==
    IF has_event /\ ~is_weekend
    THEN IF fg_code # <<>> \/ bg_code # <<>>
         THEN bg_code \o fg_code \o <<BOLD_CODE>> \o <<"ESC[7m">>
         ELSE <<"ESC[7m">>
    ELSE <<>>

\* if event_for_day.is_some() && !is_weekend { .. }
EventStep(has_event, is_weekend, fg_code, bg_code) ==
    IF has_event /\ ~is_weekend
    THEN IF fg_code # <<>> \/ bg_code # <<>>
         THEN bg_code \o fg_code \o <<BOLD_CODE>>
         ELSE IF bg_code = <<>> THEN <<"ESC[7m">> ELSE <<>>
    ELSE <<>>

\* TodayStep that keeps what the earlier steps pushed
TodayStep_no_clear(is_today, format_codes, fg_code, bg_code) ==
    IF is_today
    THEN format_codes
         \o (IF bg_code = <<>> THEN <<"ESC[43m">> ELSE bg_code)
         \o (IF fg_code = <<>> THEN <<"ESC[30m">> ELSE fg_code)
    ELSE format_codes

\* if is_today { format_codes.clear(); .. }
TodayStep(is_today, format_codes, fg_code, bg_code) ==
    IF is_today
    THEN (IF bg_code = <<>> THEN <<"ESC[43m">> ELSE bg_code)
         \o (IF fg_code = <<>> THEN <<"ESC[30m">> ELSE fg_code)
    ELSE format_codes

\* format_codes of the cell of current_date
FormatCodes(current_date, events_vec, today_date) ==
    LET event_for_day == EventForDay(events_vec, current_date)
        has_event     == IsSome(event_for_day)
        is_today      == current_date = today_date
        is_weekend    == WeekdayOf(current_date) \in {6, 7}
        fg_code       == IF has_event
                         THEN ColorCode(Unwrap(event_for_day).fg_color, TRUE)
                         ELSE <<>>
        bg_code       == IF has_event
                         THEN ColorCode(Unwrap(event_for_day).bg_color, FALSE)
                         ELSE <<>>
    IN  TodayStep(is_today,
                  WeekendStep(is_weekend, has_event)
                      \o EventStep(has_event, is_weekend, fg_code, bg_code),
                  fg_code, bg_code)

\* one cell of a week row: day = 0 and three spaces outside the month
Cell(month_start, day, days, events_vec, today_date) ==
    IF day > 0 /\ day <= days
    THEN LET format_codes ==
                 FormatCodes(Date(month_start.year, month_start.month, day),
                             events_vec, today_date)
         IN  [day          |-> day,
              format_codes |-> format_codes,
              text         |-> format_codes \o Width2(day) \o <<RESET_CODE, " ">>]
    ELSE [day |-> 0, format_codes |-> <<>>, text |-> <<" ", " ", " ">>]

\* WeekColumn numbering a week by the day of its first cell, in the month
\* or before it
WeekColumn_row_start(month_start, start_day, days, config) ==
    IF ~config.show_week_numbers THEN <<>>
    ELSE IF start_day <= days /\ start_day + 6 >= 1
    THEN LET week_date == AddDays(month_start, start_day - 1)
         IN  <<"ESC[34m">> \o Width2(IsoWeek(week_date)) \o <<RESET_CODE, " ">>
    ELSE <<" ", " ", " ">>

\* the week number column: nothing when week numbers are off
WeekColumn(month_start, start_day, days, config) ==
    IF ~config.show_week_numbers THEN <<>>
    ELSE IF start_day <= days /\ start_day + 6 >= 1
    THEN LET shift     == IF start_day - 1 > 0 THEN start_day - 1 ELSE 0
             week_date == AddDays(month_start, shift)
         IN  <<"ESC[34m">> \o Width2(IsoWeek(week_date)) \o <<RESET_CODE, " ">>
    ELSE <<" ", " ", " ">>

print_week_row(month_start, week_num, config, events_vec, today_date) ==
    LET days      == days_in_month(month_start.year, month_start.month)
        start_day == get_week_start_day(month_start, week_num, config.monday_first)
    IN  [week_column |-> WeekColumn(month_start, start_day, days, config),
         cells       |-> [day_offset \in 1..7 |->
                             Cell(month_start, start_day + day_offset - 1, days,
                                  events_vec, today_date)]]

---------------------------------------------------------------------------
(* display_month_row: the week lines of one row of months *)

\* dates.iter().map(|d| weeks_in_month(*d, ..)).max()
MaxWeeks(dates, monday_first) ==
    LET weeks == {weeks_in_month(dates[k], monday_first) : k \in 1..Len(dates)}
    IN  CHOOSE w \in weeks : \A v \in weeks : v <= w

\* is_empty_row that is true as soon as one month has no day in the week
is_empty_row_any(dates, week, monday_first) ==
    \E k \in 1..Len(dates) :
        LET week_start_day == get_week_start_day(dates[k], week, monday_first)
            days           == days_in_month(dates[k].year, dates[k].month)
        IN  week_start_day > days \/ week_start_day + 6 < 1

is_empty_row(dates, week, monday_first) ==
    \A k \in 1..Len(dates) :
        LET week_start_day == get_week_start_day(dates[k], week, monday_first)
            days           == days_in_month(dates[k].year, dates[k].month)
        IN  week_start_day > days \/ week_start_day + 6 < 1

\* the week lines printed for the months `dates`: each line holds, month by
\* month, what print_week_row prints
WeekLines(dates, config, events_vec, today_date) ==
    LET max_weeks == MaxWeeks(dates, config.monday_first)
        all == [w \in 1..max_weeks |->
                   [week   |-> w - 1,
                    months |-> [k \in 1..Len(dates) |->
                                   print_week_row(dates[k], w - 1, config,
                                                  events_vec, today_date)]]]
    IN  SelectSeq(all, LAMBDA l : ~is_empty_row(dates, l.week, config.monday_first))

\* display_month_row: the months of the row, max_weeks and the week lines
\* printed; None when a month is no date (the unwrap panics)
display_month_row(config, events_vec, start_idx, end_idx, today_date) ==
    LET dates == RowDates(config, start_idx, end_idx)
    IN  IF \E k \in 1..Len(dates) : ~IsSome(dates[k]) THEN None
        ELSE LET months == [k \in 1..Len(dates) |-> Unwrap(dates[k])]
             IN  Some([dates     |-> months,
                       max_weeks |-> MaxWeeks(months, config.monday_first),
                       lines     |-> WeekLines(months, config, events_vec, today_date)])

---------------------------------------------------------------------------
(* display_events_list *)

get_ordinal_suffix(n) ==
    IF TruncRem(n, 100) >= 11 /\ TruncRem(n, 100) <= 13 THEN <<"t", "h">>
    ELSE IF TruncRem(n, 10) = 1 THEN <<"s", "t">>
    ELSE IF TruncRem(n, 10) = 2 THEN <<"n", "d">>
    ELSE IF TruncRem(n, 10) = 3 THEN <<"r", "d">>
    ELSE <<"t", "h">>

Str_Birthday == <<"B", "i", "r", "t", "h", "d", "a", "y">>

Str_Anniversary == <<"A", "n", "n", "i", "v", "e", "r", "s", "a", "r", "y">>

\* Annotation that counts the original year as the first
Annotation_from_one(event) ==
    IF IsSome(event.original_year)
       /\ event.category \in {Some(Str_bday), Some(Str_anni)}
    THEN LET label == IF event.category = Some(Str_bday)
                      THEN Str_Birthday ELSE Str_Anniversary
             anniversary_num == event.date.year - Unwrap(event.original_year) + 1
         IN  IF anniversary_num > 0
             THEN <<" ", "(">> \o ToStr(anniversary_num)
                  \o get_ordinal_suffix(anniversary_num)
                  \o <<" ">> \o label \o <<")">>
             ELSE <<>>
    ELSE <<>>

\* the text " (N<suffix> Birthday)" / " (N<suffix> Anniversary)" pushed to
\* the description, empty when nothing is pushed
Annotation(event) ==
    IF IsSome(event.original_year)
       /\ event.category \in {Some(Str_bday), Some(Str_anni)}
    THEN LET label == IF event.category = Some(Str_bday)
                      THEN Str_Birthday ELSE Str_Anniversary
             anniversary_num == event.date.year - Unwrap(event.original_year)
         IN  IF anniversary_num > 0
             THEN <<" ", "(">> \o ToStr(anniversary_num)
                  \o get_ordinal_suffix(anniversary_num)
                  \o <<" ">> \o label \o <<")">>
             ELSE <<>>
    ELSE <<>>

\* relative_days_label
RelativeDaysLabel(days_diff) ==
    IF days_diff = 0 THEN <<>>
    ELSE IF days_diff > 0
    THEN <<" ", "ESC[32m", "(", "I", "n", " ", BOLD_CODE>> \o ToStr(days_diff)
         \o <<RESET_CODE, "ESC[32m", " ", "d", "a", "y", "s", ")", RESET_CODE>>
    ELSE <<" ", "ESC[34m", "(", BOLD_CODE>> \o ToStr(-days_diff)
         \o <<RESET_CODE, "ESC[34m", " ", "d", "a", "y", "s", " ", "a", "g", "o",
              ")", RESET_CODE>>

\* one line of the events list: the arguments of its println!
EventLine(event, today_date) ==
    [prefix_code      |-> ColorCode(event.bg_color, FALSE) \o ColorCode(event.fg_color, TRUE),
     date             |-> event.date,
     full_description |-> event.description \o Annotation(event)
                          \o RelativeDaysLabel(DayNumber(event.date) - DayNumber(today_date))]

\* the first day of the month after the window: None when from_ymd_opt
\* refuses the computed month (the unwrap then panics)
WindowEnd(config) ==
    LET total_months_from_epoch ==
            config.start_year * 12 + config.start_month + config.num_months
        end_year  == TruncDiv(total_months_from_epoch - 1, 12)
        end_month == TruncRem(total_months_from_epoch - 1, 12) + 1
    IN  from_ymd_opt(end_year, end_month, 1)

\* FilteredEvents that keeps an Event dated end_date
FilteredEvents_closed(events_vec, start_date, end_date) ==
    SelectSeq(events_vec, LAMBDA e :
        ~DateLess(e.date, start_date) /\ ~DateLess(end_date, e.date))

\* filtered_events
FilteredEvents(events_vec, start_date, end_date) ==
    SelectSeq(events_vec, LAMBDA e :
        ~DateLess(e.date, start_date) /\ DateLess(e.date, end_date))

\* the lines display_events_list prints for the Events, in their order
display_events_list(config, events_vec, today_date) ==
    LET start_date == Date(config.start_year, config.start_month, 1)
        end_date   == Unwrap(WindowEnd(config))
        filtered_events == FilteredEvents(events_vec, start_date, end_date)
    IN  [k \in 1..Len(filtered_events) |-> EventLine(filtered_events[k], today_date)]

---------------------------------------------------------------------------
(* Inputs of the evaluator: calls of calculate_easter_date, find_nth_dow   *)
(* and calculate_date_from_rule.  A rule text is written from its form, so *)
(* that what the evaluator parses back is checked against the form.        *)

EasterYearLo == 1570

EasterYearHi == 2300

EvalYearLo == 2000

EvalYearHi == 2027

MaxOffset == 2

EvalYears == EvalYearLo..EvalYearHi

NoForm ==
    [kind |-> "none", y |-> 0, m |-> 0, d |-> 0, wd |-> 0, op |-> "", off |-> 0,
     n |-> 0, digits |-> <<>>, fmt |-> ""]

NoCall ==
    [fn |-> "none", year |-> 0, month |-> 0, dow |-> 0, n |-> 0,
     rule |-> <<>>, form |-> NoForm, monday_first |-> TRUE,
     show_week_numbers |-> TRUE, num_months |-> 1]

\* the grid of one month under a week-start convention
GridCalls ==
    {[NoCall EXCEPT !.fn = "month_grid", !.year = y, !.month = m, !.monday_first = mf] :
        y \in EvalYears, m \in 1..12, mf \in BOOLEAN}

MaxRowMonths == 3

\* the years whose months are shown in rows
RowYears == (EvalYearHi - 7)..EvalYearHi

\* one row of 1..MaxRowMonths months from month/year, with and without week
\* numbers, under either week start
RowCalls ==
    {[NoCall EXCEPT !.fn = "month_row", !.year = y, !.month = m, !.num_months = n,
                    !.monday_first = mf, !.show_week_numbers = wk] :
        y \in RowYears, m \in 1..12, n \in 1..MaxRowMonths,
        mf \in BOOLEAN, wk \in BOOLEAN}

EasterCalls ==
    {[NoCall EXCEPT !.fn = "easter", !.year = y] : y \in EasterYearLo..EasterYearHi}

NthDowCalls ==
    {[NoCall EXCEPT !.fn = "find_nth_dow", !.year = y, !.month = m, !.dow = d, !.n = n] :
        y \in EvalYears, m \in 1..12, d \in 1..7, n \in 0..6}

\* MM/DOW#N
NthForms ==
    {[NoForm EXCEPT !.kind = "nth", !.m = m, !.wd = d, !.n = n] :
        m \in 1..12, d \in 0..6, n \in 0..7}

\* the month/day pairs used by conditional and shorthand rules
CondDates == {<<1, 1>>, <<2, 29>>, <<2, 30>>, <<7, 4>>, <<12, 25>>, <<12, 31>>}

\* MM/DD?D+OFFSET and MM/DD?D-OFFSET
CondForms ==
    {[NoForm EXCEPT !.kind = "cond", !.m = md[1], !.d = md[2], !.wd = d,
                    !.op = o, !.off = k] :
        md \in CondDates, d \in 0..6, o \in {"+", "-"}, k \in (0..MaxOffset) \cup {40}}

\* the digit strings of the shorthand MM/DD?<digits>
ShortDigits ==
    {<<>>, <<"5">>, <<"2", "4">>, <<"2", "0", "2">>, <<"2", "0", "2", "4">>,
     <<"1", "9", "9", "0">>, <<"9", "9", "9", "9">>}

\* MM/DD? and MM/DD?<digits>
ShortForms ==
    {[NoForm EXCEPT !.kind = "short", !.m = md[1], !.d = md[2], !.digits = ds] :
        md \in CondDates, ds \in ShortDigits}

\* MM/DD
AnnualForms ==
    {[NoForm EXCEPT !.kind = "annual", !.m = m, !.d = d] :
        m \in 1..12, d \in {1, 4, 28, 29, 30, 31}}

\* E, E+N, E-N
EasterForms ==
    {[NoForm EXCEPT !.kind = "easter", !.op = o, !.off = k] :
        o \in {"", "+", "-"}, k \in 0..MaxOffset}

\* decimal text padded with zeros to at least w digits
RECURSIVE Pad(_, _)
Pad(t, w) == IF Len(t) >= w THEN t ELSE Pad(<<"0">> \o t, w)

\* DD-MM-YYYY, MM/DD/YYYY and YYYY-MM-DD
FixedText(f) ==
    LET yy == Pad(ToStr(f.y), 4)
        mm == Pad(ToStr(f.m), 2)
        dd == Pad(ToStr(f.d), 2)
    IN  IF f.fmt = "dmy" THEN dd \o <<"-">> \o mm \o <<"-">> \o yy
        ELSE IF f.fmt = "mdy" THEN mm \o <<"/">> \o dd \o <<"/">> \o yy
        ELSE yy \o <<"-">> \o mm \o <<"-">> \o dd

RuleText(f) ==
    IF f.kind = "fixed" THEN FixedText(f)
    ELSE IF f.kind = "nth"
    THEN ToStr(f.m) \o <<"/">> \o ToStr(f.wd) \o <<"#">> \o ToStr(f.n)
    ELSE IF f.kind = "cond"
    THEN ToStr(f.m) \o <<"/">> \o ToStr(f.d) \o <<"?">> \o ToStr(f.wd)
         \o <<f.op>> \o ToStr(f.off)
    ELSE IF f.kind = "short"
    THEN ToStr(f.m) \o <<"/">> \o ToStr(f.d) \o <<"?">> \o f.digits
    ELSE IF f.kind = "annual"
    THEN ToStr(f.m) \o <<"/">> \o ToStr(f.d)
    ELSE IF f.kind = "easter"
    THEN IF f.op = "" /\ f.off = 0 THEN <<"E">>
         ELSE IF f.op = "" THEN <<"E">> \o ToStr(f.off)
         ELSE <<"E", f.op>> \o ToStr(f.off)
    ELSE <<>>

RuleForms == NthForms \cup CondForms \cup ShortForms \cup AnnualForms \cup EasterForms

\* rule texts with one trigger, several triggers or none, well formed and
\* not: starting with 'E', containing '#', containing '?', with '/'
PriorityTexts ==
    {<<"E">>, <<"E", "+", "1">>, <<"E", "-", "2">>, <<"E", "5">>, <<"E", "x">>,
     <<"E", "+">>, <<"E", "#", "1">>, <<"E", "/", "4">>, <<"E", "?">>,
     <<"E", "1", "/", "1", "#", "1">>,
     <<"7", "/", "4", "#", "1">>, <<"5", "/", "1", "/", "?", "#", "1">>,
     <<"7", "/", "4", "/", "#", "?">>, <<"5", "/", "1", "#", "1", "?", "2", "+", "1">>,
     <<"5", "/", "1", "?", "1", "#", "2">>, <<"5", "/", "x", "#", "1">>,
     <<"5", "#", "1">>,
     <<"7", "/", "4", "?">>, <<"7", "/", "4", "/", "2", "?">>,
     <<"7", "/", "4", "?", "x">>, <<"x", "/", "4", "?">>,
     <<"7", "/", "4">>, <<"7", "/", "x">>,
     <<>>, <<"x">>, <<"7">>, <<"7", "/", "4", "/", "5">>, <<"7", "-", "4">>}

PriorityCalls ==
    {[NoCall EXCEPT !.fn = "rule", !.year = y, !.rule = t,
                    !.form = [NoForm EXCEPT !.kind = "priority"]] :
        y \in EvalYears, t \in PriorityTexts}

RuleCalls ==
    {[NoCall EXCEPT !.fn = "rule", !.year = y, !.rule = RuleText(f), !.form = f] :
        y \in EvalYears, f \in RuleForms}

---------------------------------------------------------------------------
(* The evaluator as a state machine: one call, one return. *)

NoConfig ==
    [start_year |-> 0, start_month |-> 1, num_months |-> 1, num_columns |-> 1,
     monday_first |-> TRUE, show_calendar |-> TRUE, show_events |-> TRUE,
     show_week_numbers |-> TRUE]

\* the grid display_month_row prints for one month without Events: the
\* number of weeks, the start day of every week and the week lines
MonthGrid(month_start, monday_first, today_date) ==
    LET weeks == weeks_in_month(month_start, monday_first)
    IN  [weeks      |-> weeks,
         start_days |-> [w \in 1..weeks |->
                            get_week_start_day(month_start, w - 1, monday_first)],
         lines      |-> WeekLines(<<month_start>>,
                                  [NoConfig EXCEPT !.monday_first = monday_first],
                                  <<>>, today_date)]

InitEval ==
    /\ call \in EasterCalls \cup NthDowCalls \cup RuleCalls \cup GridCalls \cup RowCalls
                \cup PriorityCalls
    /\ ret = None
    /\ pc = "eval"
    /\ cfg = NoConfig
    /\ file = <<>>
    /\ today = Date(1970, 1, 1)
    /\ events = <<>>
    /\ evaluated = {}
    /\ row = 0
    /\ shown = <<>>
    /\ grid = <<>>
    /\ listed = <<>>

CallEaster ==
    /\ pc = "eval"
    /\ call.fn = "easter"
    /\ ret' = calculate_easter_date(call.year)
    /\ pc' = "returned"
    /\ UNCHANGED <<cfg, file, today, events, evaluated, row, shown, grid, listed, call>>

CallFindNthDow ==
    /\ pc = "eval"
    /\ call.fn = "find_nth_dow"
    /\ ret' = find_nth_dow(call.year, call.month, call.dow, call.n)
    /\ pc' = "returned"
    /\ UNCHANGED <<cfg, file, today, events, evaluated, row, shown, grid, listed, call>>

CallRule ==
    /\ pc = "eval"
    /\ call.fn = "rule"
    /\ ret' = calculate_date_from_rule(call.rule, call.year)
    /\ pc' = "returned"
    /\ UNCHANGED <<cfg, file, today, events, evaluated, row, shown, grid, listed, call>>

CallMonthGrid ==
    /\ pc = "eval"
    /\ call.fn = "month_grid"
    /\ ret' = Some(MonthGrid(Date(call.year, call.month, 1), call.monday_first, today))
    /\ pc' = "returned"
    /\ UNCHANGED <<cfg, file, today, events, evaluated, row, shown, grid, listed, call>>

\* the configuration of a month_row call
RowConfig(c) ==
    [NoConfig EXCEPT !.start_year = c.year, !.start_month = c.month,
                     !.num_months = c.num_months, !.num_columns = c.num_months,
                     !.monday_first = c.monday_first,
                     !.show_week_numbers = c.show_week_numbers]

CallMonthRow ==
    /\ pc = "eval"
    /\ call.fn = "month_row"
    /\ ret' = display_month_row(RowConfig(call), <<>>, 0, call.num_months, today)
    /\ pc' = "returned"
    /\ UNCHANGED <<cfg, file, today, events, evaluated, row, shown, grid, listed, call>>

NextEval == CallEaster \/ CallFindNthDow \/ CallRule \/ CallMonthGrid \/ CallMonthRow

SpecEval == InitEval /\ [][NextEval]_vars

---------------------------------------------------------------------------
(* Inputs of the program: the configuration and the lines of the rule file. *)
(* A line is [text, form]: the program reads text only; form records what   *)
(* the text was written from.                                              *)

MaxMonths == 13

\* The start years of the model are not negative.  (For a negative
\* start_year the truncating division of display_month_row and
\* display_events_list yields a month below 1 and the unwrap panics.)
StartYears == {0, 1582, 2023, 2024}

\* the flags are those of Config::default()
Configs ==
    {[start_year |-> y, start_month |-> m, num_months |-> n, num_columns |-> 3,
      monday_first |-> TRUE, show_calendar |-> TRUE, show_events |-> TRUE,
      show_week_numbers |-> TRUE] :
        y \in StartYears, m \in 1..12, n \in 1..MaxMonths}

\* configurations with -sun and with -w off
FlagConfigs ==
    {[c EXCEPT !.monday_first = mf, !.show_week_numbers = wk] :
        c \in {k \in Configs : k.start_year = 2024 /\ k.num_months \in {1, 3}},
        mf \in BOOLEAN, wk \in BOOLEAN}

\* the configurations whose year spans the lines of the file are expanded
\* over: one, two and three years long
SpanConfigs ==
    {c \in Configs : c.start_month \in {1, 12} /\ c.num_months \in {1, 2, MaxMonths}}

Str_Independence_Day ==
    <<"I", "n", "d", "e", "p", "e", "n", "d", "e", "n", "c", "e", " ", "D", "a", "y">>

Str_work == <<"w", "o", "r", "k">>

\* the fixed dates written in rule lines
FixedDates ==
    {<<1990, 7, 4>>, <<2020, 2, 29>>, <<2023, 12, 31>>, <<2024, 2, 29>>,
     <<2024, 7, 4>>, <<2025, 1, 1>>}

FixedForms ==
    {[NoForm EXCEPT !.kind = "fixed", !.fmt = f, !.y = ymd[1], !.m = ymd[2], !.d = ymd[3]] :
        f \in {"dmy", "mdy", "ymd"}, ymd \in FixedDates}

\* the annual rules written in rule lines
LineAnnualForms ==
    {[NoForm EXCEPT !.kind = "annual", !.m = md[1], !.d = md[2]] :
        md \in {<<1, 1>>, <<2, 29>>, <<2, 30>>, <<7, 4>>, <<12, 31>>}}

\* RULE;[category]DESCRIPTION, or RULE;DESCRIPTION when cat is empty
LineText(rule, cat, desc) ==
    RuleText(rule) \o <<";">>
    \o (IF cat = <<>> THEN <<>> ELSE <<"[">> \o cat \o <<"]">>)
    \o desc

Line(rule, cat, desc) ==
    [text |-> LineText(rule, cat, desc),
     form |-> [rule |-> rule, cat |-> cat, fg |-> <<>>, bg |-> <<>>, desc |-> desc]]

\* RULE;[category,fg,bg]DESCRIPTION
ColourLine(rule, cat, fg, bg, desc) ==
    [text |-> RuleText(rule) \o <<";", "[">> \o cat \o <<",">> \o fg \o <<",">> \o bg
              \o <<"]">> \o desc,
     form |-> [rule |-> rule, cat |-> cat, fg |-> fg, bg |-> bg, desc |-> desc]]

CommentLine ==
    [text |-> <<"#", " ", "7", "/", "4", ";", "c">>,
     form |-> [rule |-> NoForm, cat |-> <<>>, fg |-> <<>>, bg |-> <<>>, desc |-> <<"c">>]]

BlankLine ==
    [text |-> <<" ", " ">>,
     form |-> [rule |-> NoForm, cat |-> <<>>, fg |-> <<>>, bg |-> <<>>, desc |-> <<>>]]

Categories == {<<>>, Str_bday, Str_anni, Str_work}

\* the lines of one-line files, described "A"
FirstLines ==
    {Line(r, c, <<"A">>) : r \in FixedForms, c \in Categories}
    \cup {Line(r, c, <<"A">>) : r \in LineAnnualForms, c \in {<<>>, Str_bday}}
    \cup {Line([NoForm EXCEPT !.kind = "annual", !.m = 7, !.d = 4], <<>>,
               Str_Independence_Day)}

\* the second lines of two-line files, described "B"
SecondLines ==
    {Line(r, c, <<"B">>) :
        r \in {f \in FixedForms : f.fmt = "dmy" /\ f.y = 2024},
        c \in {<<>>, Str_anni}}
    \cup {Line(r, <<>>, <<"B">>) :
        r \in {f \in LineAnnualForms : f.d \in {4, 29}}}
    \cup {CommentLine, BlankLine}

\* the first lines of two-line files
PairedLines ==
    {l \in FirstLines :
        /\ l.form.desc = <<"A">>
        /\ l.form.cat \in {<<>>, Str_bday}
        /\ l.form.rule.fmt \in {"", "ymd"}
        /\ <<l.form.rule.m, l.form.rule.d>> \in {<<2, 29>>, <<7, 4>>}}
    \cup {CommentLine}

Files ==
    {<<>>}
    \cup {<<l>> : l \in FirstLines}
    \cup {<<l, k>> : l \in PairedLines, k \in SecondLines}

---------------------------------------------------------------------------
(* main: load_events, then display_calendars row by row. *)

\* a file with an Event on the first day of every month, described by the
\* number of the month
FirstOfMonthFile ==
    [m \in 1..12 |->
        Line([NoForm EXCEPT !.kind = "annual", !.m = m, !.d = 1], <<>>, ToStr(m))]

\* the files of computed rules: Easter, and 31 December moved to 1 January
\* of the next year when it is a Tuesday (2024) or a Sunday (2023)
ComputedLines ==
    {Line([NoForm EXCEPT !.kind = "easter", !.op = "+", !.off = 1], <<>>, <<"A">>),
     Line([NoForm EXCEPT !.kind = "cond", !.m = 12, !.d = 31, !.wd = 2,
                         !.op = "+", !.off = 1], <<>>, <<"A">>),
     Line([NoForm EXCEPT !.kind = "cond", !.m = 12, !.d = 31, !.wd = 0,
                         !.op = "+", !.off = 1], Str_work, <<"A">>)}

ComputedFiles ==
    {<<l>> : l \in ComputedLines}
    \cup {<<l, Line([NoForm EXCEPT !.kind = "annual", !.m = 1, !.d = 1], <<>>, <<"B">>)>> :
            l \in ComputedLines}
    \cup {<<Line([NoForm EXCEPT !.kind = "annual", !.m = 1, !.d = 1], <<>>, <<"A">>),
             Line([NoForm EXCEPT !.kind = "cond", !.m = 12, !.d = 31, !.wd = 2,
                                 !.op = "+", !.off = 1], <<>>, <<"B">>)>>}

Str_red == <<"r", "e", "d">>

Str_Red == <<"R", "e", "D">>

Str_blue == <<"b", "l", "u", "e">>

Str_pink == <<"p", "i", "n", "k">>

\* a Thursday and a Saturday of July 2024
StyleDates == {<<2024, 7, 4>>, <<2024, 7, 6>>}

\* lines with colours: set, set in another case, unknown, unset
StyleLines(desc) ==
    {ColourLine([NoForm EXCEPT !.kind = "fixed", !.fmt = "dmy",
                               !.y = ymd[1], !.m = ymd[2], !.d = ymd[3]],
                <<>>, fg, bg, desc) :
        ymd \in StyleDates,
        fg \in {<<>>, Str_red, Str_Red, Str_pink},
        bg \in {<<>>, Str_blue, Str_pink}}

\* one coloured line, or two lines on 4 July 2024
StyleFiles ==
    {<<l>> : l \in StyleLines(<<"A">>)}
    \cup {<<l, k>> :
            l \in {a \in StyleLines(<<"A">>) :
                      a.form.rule.d = 4 /\ a.form.bg = <<>> /\ a.form.fg \in {<<>>, Str_red}},
            k \in {b \in StyleLines(<<"B">>) :
                      b.form.rule.d = 4 /\ b.form.bg = Str_blue
                      /\ b.form.fg \in {<<>>, Str_red}}}

\* July 2024 alone
StyleConfigs ==
    {c \in Configs : c.start_year = 2024 /\ c.start_month = 7 /\ c.num_months = 1}

\* July 2024 alone or after June, with either week start
StyleRunConfigs ==
    {c \in FlagConfigs :
        /\ c.show_week_numbers
        /\ \/ c.start_month = 7 /\ c.num_months = 1
           \/ c.start_month = 6 /\ c.num_months = 3}

StyleTodays == {Date(2024, 7, 4), Date(2024, 7, 5), Date(2024, 7, 6)}

\* the years of birth and of marriage, 10 to 23 and 100 to 113 years before 2024
OrdinalYears ==
    {1911, 1912, 1913, 1921, 1922, 1923, 1924, 2001, 2002, 2003, 2011, 2012,
     2013, 2014}

OrdinalFiles ==
    {<<Line([NoForm EXCEPT !.kind = "fixed", !.fmt = "dmy", !.y = y, !.m = 7, !.d = 4],
            c, <<"A">>)>> :
        y \in OrdinalYears, c \in {Str_bday, Str_anni}}

\* every configuration with a short file and with FirstOfMonthFile, every
\* file with the span configurations
Inputs ==
    ((Configs \cup FlagConfigs)
        \X {f \in Files : f = <<>> \/ f = <<CommentLine, BlankLine>>}
        \X {Date(2024, 7, 4)})
    \cup (Configs \X {FirstOfMonthFile} \X {Date(2024, 7, 4)})
    \cup (SpanConfigs \X (Files \cup ComputedFiles) \X {Date(2024, 7, 4)})
    \cup (StyleConfigs \X OrdinalFiles \X {Date(2024, 7, 4)})

Init ==
    /\ \E input \in Inputs :
           cfg = input[1] /\ file = input[2] /\ today = input[3]
    /\ pc = "main"
    /\ events = <<>>
    /\ evaluated = {}
    /\ row = 0
    /\ shown = <<>>
    /\ grid = <<>>
    /\ listed = <<>>
    /\ call = NoCall
    /\ ret = None

\* let events = load_events(&events_file, &config);
LoadEvents ==
    /\ pc = "main"
    /\ events' = load_events(file, cfg)
    /\ evaluated' = RuleCallsOf(file, cfg)
    /\ pc' = IF cfg.show_calendar THEN "calendars" ELSE "events_list"
    /\ UNCHANGED <<cfg, file, today, row, shown, grid, listed, call, ret>>

\* one iteration of the loop of display_calendars: display_month_row, which
\* panics (unwrap of None) before it prints when a month is no date
DisplayMonthRow ==
    /\ pc = "calendars"
    /\ months_per_row(cfg) # 0
    /\ row < num_rows(cfg)
    /\ LET start_idx == row * months_per_row(cfg)
           end0      == start_idx + months_per_row(cfg)
           end_idx   == IF end0 < cfg.num_months THEN end0 ELSE cfg.num_months
           dates     == RowDates(cfg, start_idx, end_idx)
       IN  IF \E k \in 1..Len(dates) : ~IsSome(dates[k])
           THEN /\ pc' = "panic"
                /\ UNCHANGED <<row, shown, grid>>
           ELSE LET months == [k \in 1..Len(dates) |-> Unwrap(dates[k])]
                IN  /\ shown' = Append(shown, months)
                    /\ grid' = Append(grid,
                           [dates |-> months,
                            max_weeks |-> MaxWeeks(months, cfg.monday_first),
                            lines |-> WeekLines(months, cfg, events, today)])
                    /\ row' = row + 1
                    /\ pc' = pc
    /\ UNCHANGED <<cfg, file, today, events, evaluated, listed, call, ret>>

\* display_calendars returns
DisplayCalendarsDone ==
    /\ pc = "calendars"
    /\ (months_per_row(cfg) = 0 \/ row >= num_rows(cfg))
    /\ pc' = "events_list"
    /\ UNCHANGED <<cfg, file, today, events, evaluated, row, shown, grid, listed,
                   call, ret>>

\* if config.show_events { display_events_list(&config, &events); }, which
\* panics (unwrap of None) when the month after the window is no date
DisplayEventsList ==
    /\ pc = "events_list"
    /\ IF cfg.show_events /\ ~IsSome(WindowEnd(cfg))
       THEN /\ pc' = "panic"
            /\ UNCHANGED listed
       ELSE /\ listed' = IF cfg.show_events
                         THEN display_events_list(cfg, events, today)
                         ELSE listed
            /\ pc' = "done"
    /\ UNCHANGED <<cfg, file, today, events, evaluated, row, shown, grid, call, ret>>

Next == LoadEvents \/ DisplayMonthRow \/ DisplayCalendarsDone \/ DisplayEventsList

Spec == Init /\ [][Next]_vars

\* the program run on files of coloured Events, on a day of July 2024
InitStyle ==
    /\ cfg \in StyleRunConfigs
    /\ file \in StyleFiles
    /\ today \in StyleTodays
    /\ pc = "main"
    /\ events = <<>>
    /\ evaluated = {}
    /\ row = 0
    /\ shown = <<>>
    /\ grid = <<>>
    /\ listed = <<>>
    /\ call = NoCall
    /\ ret = None

SpecStyle == InitStyle /\ [][Next]_vars

MaxColumns == 4

\* windows of 1..MaxMonths months laid out in 1..MaxColumns columns (-cols
\* turns 0 into 1), under either week start
LayoutConfigs ==
    {[c EXCEPT !.num_columns = cols, !.monday_first = mf] :
        c \in {k \in Configs : k.start_year = 2023 /\ k.start_month \in {1, 6, 11, 12}},
        cols \in 1..MaxColumns, mf \in BOOLEAN}

\* the program run without an events file
InitLayout ==
    /\ cfg \in LayoutConfigs
    /\ file = <<>>
    /\ today = Date(2024, 7, 4)
    /\ pc = "main"
    /\ events = <<>>
    /\ evaluated = {}
    /\ row = 0
    /\ shown = <<>>
    /\ grid = <<>>
    /\ listed = <<>>
    /\ call = NoCall
    /\ ret = None

SpecLayout == InitLayout /\ [][Next]_vars

---------------------------------------------------------------------------
(* Rule lines written piece by piece.  The form of such a line is           *)
(* [shape, rule, fields, desc]: the rule text, the metadata fields between  *)
(* '[' and ']' and the text that follows.                                   *)

MaxFields == 4

\* the texts of a metadata field: empty, padded with spaces, plain
FieldTexts == {<<>>, <<" ", "w", " ">>, Str_red}

RECURSIVE Join(_, _)
Join(texts, sep) ==
    IF texts = <<>> THEN <<>>
    ELSE IF Len(texts) = 1 THEN texts[1]
    ELSE texts[1] \o <<sep>> \o Join(Tail(texts), sep)

\* the text after the ';': "[f1,f2,..]desc" (closed), "[f1,f2,..desc"
\* (open) or "desc" (plain)
RightSide(f) ==
    IF f.shape = "closed" THEN <<"[">> \o Join(f.fields, ",") \o <<"]">> \o f.desc
    ELSE IF f.shape = "open" THEN <<"[">> \o Join(f.fields, ",") \o f.desc
    ELSE f.desc

PieceLine(f) ==
    [text |-> f.rule \o <<";", " ">> \o RightSide(f), form |-> f]

\* the texts after the metadata
DescTexts == {<<>>, <<"A">>, <<" ", "A", " ", "b">>, <<"x", "]", "y">>}

\* lines of the rule 7/4 with 0..MaxFields metadata fields
MetaForms ==
    {[shape |-> sh, rule |-> <<"7", "/", "4">>, fields |-> fs, desc |-> d] :
        sh \in {"closed", "open"},
        fs \in UNION {[1..n -> FieldTexts] : n \in 0..MaxFields},
        d \in DescTexts}
    \cup {[shape |-> "plain", rule |-> <<"7", "/", "4">>, fields |-> <<>>, desc |-> d] :
            d \in DescTexts \cup {<<"A", " ", "[", "w", "]">>}}

\* an open bracket is open: no ']' follows it
MetaFiles ==
    {<<PieceLine(f)>> : f \in {g \in MetaForms : g.shape = "open" => Find(g.desc, "]") = 0}}

\* rule texts that match no grammar, or fail the parse of the kind they
\* trigger: Easter, Nth weekday, conditional, annual
MalformedRules ==
    {<<>>, <<"x">>, <<"7">>, <<"7", "/", "4", "/", "x">>,
     <<"E", "x">>, <<"E", "+">>, <<"E", "a", "s", "t", "e", "r">>,
     <<"5", "/", "1", "#">>, <<"5", "/", "x", "#", "1">>, <<"5", "#", "1">>,
     <<"x", "/", "4", "?">>, <<"7", "?", "2", "+", "1">>,
     <<"7", "/", "4", "?", "2", "+", "x">>, <<"7", "/", "4", "?", "2", "*", "1">>,
     <<"7", "/", "4", "?", "9", "+", "1">>, <<"7", "/", "4", "?", "a", "b">>,
     <<"7", "/", "x">>, <<"/", "4">>}

\* lines that yield nothing: malformed rules described "M", a comment
\* and a blank line
SkippedLines ==
    {PieceLine([shape |-> "malformed", rule |-> r, fields |-> <<>>, desc |-> <<"M">>]) :
        r \in MalformedRules}
    \cup {[text |-> <<" ", "#", " ", "7", "/", "4", ";", "M">>,
           form |-> [shape |-> "comment", rule |-> <<>>, fields |-> <<>>, desc |-> <<"M">>]],
          [text |-> <<" ", "\t", " ">>,
           form |-> [shape |-> "blank", rule |-> <<>>, fields |-> <<>>, desc |-> <<>>]]}

\* lines that yield Events: an annual rule, a birthday and an Easter rule
GoodLines ==
    {PieceLine([shape |-> "plain", rule |-> <<"7", "/", "4">>, fields |-> <<>>,
                desc |-> <<"A">>]),
     PieceLine([shape |-> "closed",
                rule |-> <<"0", "4", "-", "0", "7", "-", "1", "9", "9", "0">>,
                fields |-> <<Str_bday>>, desc |-> <<"B">>]),
     PieceLine([shape |-> "plain", rule |-> <<"E", "+", "1">>, fields |-> <<>>,
                desc |-> <<"C">>])}

\* a skipped line alone, before, after and between lines that yield Events
SkipFiles ==
    {<<m>> : m \in SkippedLines}
    \cup {<<g, m>> : g \in GoodLines, m \in SkippedLines}
    \cup {<<m, g>> : g \in GoodLines, m \in SkippedLines}
    \cup {<<g, m, h>> : g \in GoodLines, m \in SkippedLines, h \in GoodLines}

\* July 2024 alone, and December 2023 with January 2024 (the years 2023
\* and 2024)
LinesConfigs ==
    StyleConfigs
    \cup {c \in Configs : c.start_year = 2023 /\ c.start_month = 12 /\ c.num_months = 2}

\* lines without ';': a rule alone, a rule followed by a description, and
\* rules with a space inside
NoSemicolonTexts ==
    {<<"7", "/", "4">>, <<"E">>,
     <<"7", "/", "4", " ">> \o Str_Independence_Day,
     <<"E", "+", "1", " ", "E", "a", "s", "t", "e", "r">>,
     <<"5", "/", "1", "#", "1", " ", "x">>,
     <<"7", "/", "4", "?", " ", "x">>,
     <<"2", "0", "2", "4", "-", "0", "7", "-", "0", "4", " ", "P", "a", "r", "t", "y">>,
     <<"x", " ", "y">>,
     <<"5", "/", "1", "/", " ", "x", "#", "1">>,
     <<"7", "/", "4", "/", " ", "a", "?">>}

NoSemicolonFiles ==
    {<<[text |-> t,
        form |-> [shape |-> "no_semicolon", rule |-> t, fields |-> <<>>, desc |-> <<>>]]>> :
        t \in NoSemicolonTexts}

\* rules with day offsets: Easter Monday, 100 days before Easter, 31 December
\* moved to 1 January when it is a Sunday (2023) or a Tuesday (2024), and
\* 1 January moved back 40 days when it is a Monday (2024)
OffsetRules ==
    {<<"E", "+", "1">>, <<"E", "-", "1", "0", "0">>,
     <<"1", "2", "/", "3", "1", "?", "0", "+", "1">>,
     <<"1", "2", "/", "3", "1", "?", "2", "+", "1">>,
     <<"1", "/", "1", "?", "1", "-", "4", "0">>}

OffsetFiles ==
    {<<PieceLine([shape |-> "offset", rule |-> r, fields |-> <<>>, desc |-> <<"A">>])>> :
        r \in OffsetRules}

\* one month: November 2023, January 2024, March 2024
OffsetConfigs ==
    {c \in Configs :
        /\ c.num_months = 1
        /\ <<c.start_year, c.start_month>> \in {<<2023, 11>>, <<2024, 1>>, <<2024, 3>>}}

LinesInputs ==
    (StyleConfigs \X MetaFiles)
    \cup (LinesConfigs \X SkipFiles)
    \cup (LinesConfigs \X NoSemicolonFiles)
    \cup ((LinesConfigs \cup OffsetConfigs) \X OffsetFiles)

\* the program run on files of lines written piece by piece
InitLines ==
    /\ \E input \in LinesInputs : cfg = input[1] /\ file = input[2]
    /\ today = Date(2024, 7, 4)
    /\ pc = "main"
    /\ events = <<>>
    /\ evaluated = {}
    /\ row = 0
    /\ shown = <<>>
    /\ grid = <<>>
    /\ listed = <<>>
    /\ call = NoCall
    /\ ret = None

SpecLines == InitLines /\ [][Next]_vars

---------------------------------------------------------------------------
(* Properties of the evaluator (checked under SpecEval). *)

Returned(fn) == pc = "returned" /\ call.fn = fn

\* the days of month m of year y that fall on weekday wd (1 = Mon .. 7 = Sun)
Occurrences(y, m, wd) == {d \in 1..MonthLen(y, m) : WeekdayOf(Date(y, m, d)) = wd}

\* the k-th smallest element of a set of numbers
Kth(S, k) == CHOOSE d \in S : Cardinality({e \in S : e < d}) = k - 1

Last(S) == CHOOSE d \in S : \A e \in S : e <= d

\* the weekday (1 = Mon .. 7 = Sun) a rule digit 0 = Sun, 1..6 = Mon..Sat names
RuleWeekday(wd) == IF wd = 0 THEN 7 ELSE wd

\* C3: for every year y >= 1583 calculate_easter_date(y) is a date of year y
\* that is a Sunday and lies between 22 March and 25 April inclusive; for
\* every year y < 1583 it is none.
C3_EasterSundayInRange ==
    Returned("easter") =>
        IF call.year >= 1583
        THEN /\ IsSome(ret)
             /\ ret[1].year = call.year
             /\ WeekdayOf(ret[1]) = 7
             /\ DayNumber(Date(call.year, 3, 22)) <= DayNumber(ret[1])
             /\ DayNumber(ret[1]) <= DayNumber(Date(call.year, 4, 25))
        ELSE ret = None

\* C3 witness: an Easter on the latest date, 25 April
C3_Witness ==
    /\ Returned("easter")
    /\ call.year >= 1583
    /\ ret = Some(Date(call.year, 4, 25))

\* C4: find_nth_dow(y, m, d, 5) is the last occurrence of weekday d in month m
\* when the month has fewer than 5 occurrences of d, and the 5th occurrence
\* when it has 5.
C4_FifthOrLast ==
    (Returned("find_nth_dow") /\ call.n = 5) =>
        LET occ == Occurrences(call.year, call.month, call.dow)
        IN  ret = Some(Date(call.year, call.month,
                            IF Cardinality(occ) < 5 THEN Last(occ) ELSE Kth(occ, 5)))

\* C4 witness: a month with only four occurrences, answered with the fourth
C4_Witness ==
    /\ Returned("find_nth_dow")
    /\ call.n = 5
    /\ Cardinality(Occurrences(call.year, call.month, call.dow)) = 4
    /\ ret = Some(Date(call.year, call.month,
                       Kth(Occurrences(call.year, call.month, call.dow), 4)))

Rule_1_1_5 == <<"1", "/", "1", "#", "5">>

\* C5 as stated: the rule "1/1#5" for 2024 yields the 4th Monday of January
\* 2024, 2024-01-22.
C5_Original ==
    (Returned("rule") /\ call.rule = Rule_1_1_5 /\ call.year = 2024) =>
        ret = Some(Date(2024, 1, 22))

\* C5 amended: the rule "1/1#5" for 2024 yields the 5th Monday of January 2024,
\* 2024-01-29 (January 2024 has five Mondays: 1, 8, 15, 22, 29).
C5_FifthMonday2024 ==
    (Returned("rule") /\ call.rule = Rule_1_1_5 /\ call.year = 2024) =>
        /\ ret = Some(Date(2024, 1, 29))
        /\ Occurrences(2024, 1, 1) = {1, 8, 15, 22, 29}

\* C5 witness: the rule "1/1#5" evaluated for 2024
C5_Witness ==
    /\ Returned("rule")
    /\ call.rule = Rule_1_1_5
    /\ call.year = 2024
    /\ IsSome(ret)

\* C6: a rule MM/DOW#N with MM in 1..12, DOW in 0..6 (0 = Sunday) and N in
\* 1..4 yields, for any year, the N-th date of the month whose weekday is DOW
\* (the first such date plus N-1 weeks), which lies inside the month, so the
\* result is never none ("5/1#1" for 2023 gives 2023-05-01); N = 0 and N > 5
\* yield none.
C6_NthWeekday ==
    (Returned("rule") /\ call.form.kind = "nth") =>
        LET f   == call.form
            occ == Occurrences(call.year, f.m, RuleWeekday(f.wd))
        IN  /\ f.n \in 1..4 =>
                /\ Kth(occ, 1) + 7 * (f.n - 1) <= MonthLen(call.year, f.m)
                /\ Kth(occ, f.n) = Kth(occ, 1) + 7 * (f.n - 1)
                /\ ret = Some(Date(call.year, f.m, Kth(occ, f.n)))
            /\ (f.n = 0 \/ f.n > 5) => ret = None
            /\ (f.m = 5 /\ f.wd = 1 /\ f.n = 1 /\ call.year = 2023) =>
                ret = Some(Date(2023, 5, 1))

\* C6 witness: "5/1#1" evaluated for 2023
C6_Witness ==
    /\ Returned("rule")
    /\ call.rule = <<"5", "/", "1", "#", "1">>
    /\ call.form.kind = "nth"
    /\ call.year = 2023
    /\ ret = Some(Date(2023, 5, 1))

\* C7: a rule MM/DD?D+OFFSET or MM/DD?D-OFFSET (D in 0..6, 0 = Sunday), in a
\* year in which MM/DD is a date, yields MM/DD plus (for '+') or minus (for
\* '-') OFFSET days exactly when MM/DD falls on weekday D, and none when it
\* falls on another weekday.
C7_Conditional ==
    (Returned("rule") /\ call.form.kind = "cond"
       /\ IsSome(from_ymd_opt(call.year, call.form.m, call.form.d))) =>
        LET f      == call.form
            target == Date(call.year, f.m, f.d)
            shift  == IF f.op = "+" THEN f.off ELSE -f.off
        IN  IF WeekdayOf(target) = RuleWeekday(f.wd)
            THEN ret = Some(DateOfDayNumber(DayNumber(target) + shift))
            ELSE ret = None

\* C7 witness: a '-' rule whose date falls on its weekday, moved back by a
\* positive number of days
C7_Witness ==
    /\ Returned("rule")
    /\ call.form.kind = "cond"
    /\ call.form.op = "-"
    /\ call.form.off > 0
    /\ IsSome(from_ymd_opt(call.year, call.form.m, call.form.d))
    /\ WeekdayOf(Date(call.year, call.form.m, call.form.d)) = RuleWeekday(call.form.wd)
    /\ IsSome(ret)
    /\ DayNumber(ret[1]) = DayNumber(Date(call.year, call.form.m, call.form.d)) - call.form.off

\* C8: a shorthand rule MM/DD? or MM/DD?<digits> (digits of any length) yields
\* for every year what the plain annual rule MM/DD yields: the date
\* year-MM-DD, or none when that is no date; the digits are ignored.
C8_ShorthandIsAnnual ==
    (Returned("rule") /\ call.form.kind = "short") =>
        ret = from_ymd_opt(call.year, call.form.m, call.form.d)

\* the day numbers of week line w (0 for a blank cell), cell by cell
LineDays(g, w) == [j \in 1..7 |-> g.lines[w + 1].months[1].cells[j].day]

\* C20: for every month and both week-start conventions, with weekOffset the
\* distance (0..6) of the month's first weekday from the week start:
\* weeks_in_month = ceil((weekOffset + daysInMonth) / 7),
\* get_week_start_day(w) = 7w - weekOffset + 1, the cells of week row w show
\* exactly the days of [7w - weekOffset + 1, 7w - weekOffset + 7] that lie in
\* [1, daysInMonth], and every day of the month is in exactly one cell; for
\* monday_first and a month that starts on a Sunday, weekOffset = 6 and the
\* first row shows day 1 alone, in the last cell.
C20_MonthGrid ==
    Returned("month_grid") =>
        LET first       == Date(call.year, call.month, 1)
            week_start  == IF call.monday_first THEN 1 ELSE 7
            weekOffset  == CHOOSE k \in 0..6 :
                               ((week_start - 1 + k) % 7) + 1 = WeekdayOf(first)
            daysInMonth == MonthLen(call.year, call.month)
            g           == ret[1]
        IN  /\ g.weeks * 7 >= weekOffset + daysInMonth
            /\ (g.weeks - 1) * 7 < weekOffset + daysInMonth
            /\ Len(g.lines) = g.weeks
            /\ \A w \in 0..(g.weeks - 1) :
                   /\ g.start_days[w + 1] = 7 * w - weekOffset + 1
                   /\ g.lines[w + 1].week = w
                   /\ \A j \in 1..7 :
                          LineDays(g, w)[j] =
                              IF (7 * w - weekOffset + j) \in 1..daysInMonth
                              THEN 7 * w - weekOffset + j ELSE 0
            /\ \A d \in 1..daysInMonth :
                   Cardinality({wj \in (0..(g.weeks - 1)) \X (1..7) :
                                   LineDays(g, wj[1])[wj[2]] = d}) = 1
            /\ (call.monday_first /\ WeekdayOf(first) = 7) =>
                   /\ weekOffset = 6
                   /\ LineDays(g, 0) = <<0, 0, 0, 0, 0, 0, 1>>

\* C20 witness: a month of 31 days that starts on a Sunday, under
\* monday_first: six weeks, the first showing day 1 alone
C20_Witness ==
    /\ Returned("month_grid")
    /\ call.monday_first
    /\ WeekdayOf(Date(call.year, call.month, 1)) = 7
    /\ ret[1].weeks = 6
    /\ LineDays(ret[1], 0) = <<0, 0, 0, 0, 0, 0, 1>>
    /\ LineDays(ret[1], 5) = <<30, 31, 0, 0, 0, 0, 0>>

\* one or more decimal digits
NumText(t) == t # <<>> /\ AllDigits(t)

\* an optional sign, then one or more decimal digits
SignedText(t) ==
    NumText(t) \/ (t # <<>> /\ t[1] \in {"+", "-"} /\ NumText(Tail(t)))

\* the first trigger a rule text matches
Trigger(rule) ==
    IF rule # <<>> /\ rule[1] = "E" THEN "easter"
    ELSE IF \E i \in 1..Len(rule) : rule[i] = "#" THEN "nth"
    ELSE IF \E i \in 1..Len(rule) : rule[i] = "?" THEN "cond"
    ELSE IF Cardinality({i \in 1..Len(rule) : rule[i] = "/"}) = 1 THEN "annual"
    ELSE "none"

\* the '/'-separated pieces of the text before the first c, and the text
\* after it
PiecesBefore(rule, c) == Split(SubSeq(rule, 1, Find(rule, c) - 1), "/")

TextAfter(rule, c) == SubSeq(rule, Find(rule, c) + 1, Len(rule))

\* two numeric pieces to start with
TwoNumbers(pieces) ==
    Len(pieces) >= 2 /\ NumText(pieces[1]) /\ NumText(pieces[2])

\* C25: calculate_date_from_rule selects the rule kind by the first trigger
\* that matches, in the order: starts with 'E' (Easter-relative), contains
\* '#' (Nth-weekday), contains '?' (conditional), has exactly one '/'
\* (annual); once a trigger matches, a failure to parse that kind yields none
\* and the rule is never retried as a later kind (a rule starting with 'E'
\* with a non-numeric remainder yields none; a rule containing both '#' and
\* '?' is treated only as Nth-weekday); a rule matching no trigger yields
\* none.
C25_Priority ==
    (Returned("rule") /\ call.form.kind = "priority") =>
        LET rule == call.rule
            kind == Trigger(rule)
        IN  /\ kind = "easter" =>
                   IF Len(rule) = 1 \/ SignedText(Tail(rule))
                   THEN /\ IsSome(ret)
                        /\ \E off \in -2..5 :
                               /\ WeekdayOf(AddDays(ret[1], -off)) = 7
                               /\ \/ Len(rule) = 1 /\ off = 0
                                  \/ /\ off >= 0
                                     /\ Tail(rule) \in {ToStr(off), <<"+">> \o ToStr(off)}
                                  \/ off <= 0 /\ Tail(rule) = <<"-">> \o ToStr(-off)
                   ELSE ret = None
            /\ kind = "nth" =>
                   LET pieces == PiecesBefore(rule, "#")
                       n_str  == TextAfter(rule, "#")
                   IN  IF TwoNumbers(pieces) /\ NumText(n_str)
                       THEN LET m   == DigitsVal(pieces[1])
                                wd  == DigitsVal(pieces[2])
                                occ == Occurrences(call.year, m, RuleWeekday(wd))
                            IN  ret = Some(Date(call.year, m, Kth(occ, DigitsVal(n_str))))
                       ELSE ret = None
            /\ kind = "cond" =>
                   LET pieces == PiecesBefore(rule, "?")
                   IN  IF TwoNumbers(pieces) /\ TextAfter(rule, "?") = <<>>
                       THEN ret = Some(Date(call.year, DigitsVal(pieces[1]),
                                            DigitsVal(pieces[2])))
                       ELSE ret = None
            /\ kind = "annual" =>
                   LET pieces == Split(rule, "/")
                   IN  IF TwoNumbers(pieces)
                       THEN ret = Some(Date(call.year, DigitsVal(pieces[1]),
                                            DigitsVal(pieces[2])))
                       ELSE ret = None
            /\ kind = "none" => ret = None

\* C25 witness: "5/1/?#1", which contains both '#' and '?', is read as the
\* Nth-weekday rule of month 5 and weekday 1: for 2023, Monday 1 May
C25_Witness ==
    /\ Returned("rule")
    /\ call.form.kind = "priority"
    /\ call.rule = <<"5", "/", "1", "/", "?", "#", "1">>
    /\ call.year = 2023
    /\ ret = Some(Date(2023, 5, 1))

\* the ISO-8601 week number of a date: the number, within its year, of the
\* Thursday of the date's Monday-to-Sunday week
IsoWeekOf(date) ==
    LET thursday == AddDays(date, 4 - WeekdayOf(date))
    IN  (DayNumber(thursday) - DayNumber(Date(thursday.year, 1, 1))) \div 7 + 1

\* the days of month k of a week line that belong to the month
DaysShown(l, k) == {l.months[k].cells[j].day : j \in 1..7} \ {0}

BlankColumn == <<" ", " ", " ">>

NumberColumn(n) == <<"ESC[34m">> \o Width2(n) \o <<RESET_CODE, " ">>

\* C21: when week numbers are enabled, the number printed at the start of a
\* month's week row is the ISO-8601 week number of the first day of that row
\* that belongs to the month (day 1 for a row starting before the month, else
\* the row's first cell), under both week-start conventions; it is blank
\* exactly when the row contains no day of that month; when disabled, no
\* week-number column is emitted at all.
C21_WeekNumber ==
    Returned("month_row") =>
        \A i \in 1..Len(ret[1].lines) : \A k \in 1..Len(ret[1].dates) :
            LET l      == ret[1].lines[i]
                month  == ret[1].dates[k]
                shown_days == DaysShown(l, k)
                column == l.months[k].week_column
            IN  IF ~call.show_week_numbers THEN column = <<>>
                ELSE IF shown_days = {} THEN column = BlankColumn
                ELSE LET first == CHOOSE d \in shown_days : \A e \in shown_days : d <= e
                     IN  /\ column = NumberColumn(
                                IsoWeekOf(Date(month.year, month.month, first)))
                         /\ first = IF l.months[k].cells[1].day = 0 THEN 1
                                    ELSE l.months[k].cells[1].day

\* C21 witness: a Sunday-first row of three months from January 2021: the
\* first week of January, which starts in December, is numbered 53 (the week
\* of Friday 1 January), a later week of a month is numbered by its Sunday,
\* and the sixth line is blank for February
C21_Witness ==
    /\ Returned("month_row")
    /\ call.show_week_numbers /\ ~call.monday_first
    /\ call.year = 2021 /\ call.month = 1 /\ call.num_months = 3
    /\ ret[1].lines[1].months[1].cells[1].day = 0
    /\ ret[1].lines[1].months[1].week_column = NumberColumn(53)
    /\ ret[1].lines[2].months[1].cells[1].day = 3
    /\ ret[1].lines[2].months[1].week_column = NumberColumn(53)
    /\ \E i \in 1..Len(ret[1].lines) :
           /\ DaysShown(ret[1].lines[i], 2) = {}
           /\ ret[1].lines[i].months[2].week_column = BlankColumn

\* the number of week rows a month takes: the least n whose 7n cells hold
\* the days before the month's first weekday and the days of the month
WeeksOf(month, monday_first) ==
    LET week_start == IF monday_first THEN 1 ELSE 7
        weekOffset == CHOOSE k \in 0..6 :
                          ((week_start - 1 + k) % 7) + 1 = WeekdayOf(month)
        cells      == weekOffset + MonthLen(month.year, month.month)
    IN  CHOOSE n \in 1..6 : 7 * n >= cells /\ 7 * (n - 1) < cells

BlankCell == <<" ", " ", " ">>

\* C28: in display_month_row, for every row of months and every week index w
\* in 0..max_weeks-1, at least one month of the row has a day in week w, so
\* the empty-row test is never true: no week line is skipped and exactly
\* max_weeks week lines are printed per row (max_weeks being in 4..6), a
\* month with fewer weeks printing blank cells in the extra lines.
C28_NoEmptyRow ==
    Returned("month_row") =>
        LET r == ret[1]
        IN  /\ r.max_weeks \in 4..6
            /\ \A k \in 1..Len(r.dates) :
                   WeeksOf(r.dates[k], call.monday_first) <= r.max_weeks
            /\ \E k \in 1..Len(r.dates) :
                   WeeksOf(r.dates[k], call.monday_first) = r.max_weeks
            /\ Len(r.lines) = r.max_weeks
            /\ \A w \in 0..(r.max_weeks - 1) :
                   /\ ~is_empty_row(r.dates, w, call.monday_first)
                   /\ r.lines[w + 1].week = w
                   /\ \E k \in 1..Len(r.dates) : DaysShown(r.lines[w + 1], k) # {}
                   /\ \A k \in 1..Len(r.dates) :
                          w >= WeeksOf(r.dates[k], call.monday_first) =>
                              \A j \in 1..7 :
                                  r.lines[w + 1].months[k].cells[j].text = BlankCell

\* C28 witness: a row of three months printed in five lines, one of its
\* months (a February of 28 days that starts on the week start) having four
\* weeks and showing blank cells in the fifth line
C28_Witness ==
    /\ Returned("month_row")
    /\ call.num_months = 3
    /\ ret[1].max_weeks = 5
    /\ Len(ret[1].lines) = 5
    /\ \E k \in 1..3 :
           /\ WeeksOf(ret[1].dates[k], call.monday_first) = 4
           /\ DaysShown(ret[1].lines[4], k) # {}
           /\ \A j \in 1..7 : ret[1].lines[5].months[k].cells[j].text = BlankCell

---------------------------------------------------------------------------
(* Properties of the program (checked under Spec). *)

Loaded == pc # "main"

\* the last month display_calendars has shown
LastShown == shown[Len(shown)][Len(shown[Len(shown)])]

\* the calendar year of the month at offset idx of the display window
WindowYear(idx) == (cfg.start_year * 12 + cfg.start_month - 1 + idx) \div 12

SpanYears == cfg.start_year..end_year_check(cfg)

\* the Events that carry the description desc, in their order
EventsOf(desc) == SelectSeq(events, LAMBDA e : e.description = desc)

\* the months display_calendars has shown
ShownMonths == UNION {{shown[r][k] : k \in 1..Len(shown[r])} : r \in 1..Len(shown)}

\* C1: the year of every month display_calendars shows, the months at
\* offsets 0..num_months-1 of the window, lies in the year span
\* [start_year, end_year_check] of load_events.
C1_SpanCoversWindow ==
    /\ \A date \in ShownMonths : date.year \in SpanYears
    /\ pc = "events_list" =>
           \A idx \in 0..(cfg.num_months - 1) :
               /\ WindowYear(idx) \in SpanYears
               /\ \E date \in ShownMonths : date.year = WindowYear(idx)

\* C1 witness: a window shown to its end whose last month lies in a later
\* year than its first
C1_Witness ==
    /\ pc = "events_list"
    /\ shown # <<>>
    /\ LastShown.year > cfg.start_year
    /\ LastShown.year = WindowYear(cfg.num_months - 1)

\* C2 as stated: end_year_check is the calendar year that contains the last
\* displayed month.
C2_Original ==
    (pc = "events_list" /\ shown # <<>>) => end_year_check(cfg) = LastShown.year

\* C2 amended: end_year_check is the calendar year that contains the month
\* right after the last displayed month (the exclusive end of the window):
\* the year of the last displayed month, or that year plus one when the last
\* displayed month is December.
C2_YearOfWindowEnd ==
    (pc = "events_list" /\ shown # <<>>) =>
        /\ LastShown = Date(WindowYear(cfg.num_months - 1), LastShown.month, 1)
        /\ end_year_check(cfg) = WindowYear(cfg.num_months)
        /\ end_year_check(cfg) =
               IF LastShown.month = 12 THEN LastShown.year + 1 ELSE LastShown.year

\* C2 witness: a window that ends in December
C2_Witness ==
    /\ pc = "events_list"
    /\ shown # <<>>
    /\ LastShown.month = 12
    /\ end_year_check(cfg) = LastShown.year + 1

\* the span years in which (Y, m, d) is a calendar date
DateYears(m, d) == {Y \in SpanYears : IsSome(from_ymd_opt(Y, m, d))}

\* es holds exactly one Event for each year of Years, dated (Y, m, d) with
\* original_year = oy, and no other Event
OnePerYear(es, Years, m, d, oy) ==
    /\ Len(es) = Cardinality(Years)
    /\ \A Y \in Years :
           Cardinality({k \in 1..Len(es) : es[k].date = Date(Y, m, d)}) = 1
    /\ \A k \in 1..Len(es) :
           /\ es[k].original_year = oy
           /\ es[k].date.year \in Years
           /\ es[k].date.month = m
           /\ es[k].date.day = d

\* the one-line file "7/4;Independence Day"
File_7_4 ==
    <<Line([NoForm EXCEPT !.kind = "annual", !.m = 7, !.d = 4], <<>>,
           Str_Independence_Day)>>

\* C9: for an annual rule MM/DD load_events emits exactly one Event for each
\* span year Y in which (Y, MM, DD) is a calendar date, dated Y-MM-DD with
\* original_year unset, and none for the other years; "7/4;Independence Day"
\* over the span [2024, 2024] gives exactly one Event, dated 2024-07-04.
C9_AnnualOnePerYear ==
    Loaded =>
        /\ \A i \in 1..Len(file) :
               file[i].form.rule.kind = "annual" =>
                   OnePerYear(EventsOf(file[i].form.desc),
                              DateYears(file[i].form.rule.m, file[i].form.rule.d),
                              file[i].form.rule.m, file[i].form.rule.d, None)
        /\ (file = File_7_4 /\ SpanYears = {2024}) =>
               events = <<[date |-> Date(2024, 7, 4),
                           description |-> Str_Independence_Day,
                           category |-> None, fg_color |-> None,
                           bg_color |-> None, original_year |-> None]>>

\* C9 witness: the rule 2/29 over a span of a leap and a non-leap year, which
\* gives one Event only
C9_Witness ==
    /\ Loaded
    /\ Len(file) = 1
    /\ file[1].form.rule.kind = "annual"
    /\ file[1].form.rule.m = 2
    /\ file[1].form.rule.d = 29
    /\ Cardinality(SpanYears) >= 2
    /\ Len(events) = 1
    /\ events[1].date = Date(2024, 2, 29)

\* C10: for a fixed-date rule of category "bday" or "anni" with base date
\* (y0, m, d), load_events emits exactly one Event, dated (Y, m, d) with
\* original_year = y0, for every span year Y >= y0 in which (Y, m, d) is a
\* calendar date; none for a span year Y < y0; and a year in which (Y, m, d)
\* is no date is skipped alone.
C10_AnniversaryOnePerYear ==
    Loaded =>
        \A i \in 1..Len(file) :
            (file[i].form.rule.kind = "fixed"
               /\ file[i].form.cat \in {Str_bday, Str_anni}) =>
                LET f == file[i].form.rule
                IN  OnePerYear(EventsOf(file[i].form.desc),
                               {Y \in DateYears(f.m, f.d) : Y >= f.y},
                               f.m, f.d, Some(f.y))

\* C10 witness: a 29 February birthday of 2020 over 2023..2025, which recurs
\* in 2024 only
C10_Witness ==
    /\ Loaded
    /\ Len(file) = 1
    /\ file[1].form.rule.kind = "fixed"
    /\ file[1].form.cat = Str_bday
    /\ file[1].form.rule.y = 2020
    /\ file[1].form.rule.d = 29
    /\ SpanYears = 2023..2025
    /\ Len(events) = 1
    /\ events[1].date = Date(2024, 2, 29)
    /\ events[1].original_year = Some(2020)

\* load_events has just returned (no later step changes events)
AfterLoad == pc = "calendars" /\ row = 0

\* C11: for a fixed-date rule whose category is not "bday"/"anni" (no
\* category included), load_events emits exactly one Event, dated the fixed
\* date with original_year unset, if and only if the year of the fixed date
\* lies in [start_year, end_year_check]; otherwise it emits nothing; and in
\* neither case is the rule passed to calculate_date_from_rule.
C11_OneShotFixed ==
    AfterLoad =>
        \A i \in 1..Len(file) :
            (file[i].form.rule.kind = "fixed"
               /\ file[i].form.cat \notin {Str_bday, Str_anni}) =>
                LET f  == file[i].form.rule
                    es == EventsOf(file[i].form.desc)
                IN  /\ IF f.y \in SpanYears
                       THEN /\ Len(es) = 1
                            /\ es[1].date = Date(f.y, f.m, f.d)
                            /\ es[1].original_year = None
                       ELSE es = <<>>
                    /\ \A c \in evaluated : c[1] # RuleText(f)

\* C11 witness: a fixed date of category "work" inside the span, emitted once,
\* in a file whose other line is evaluated as a rule
C11_Witness ==
    /\ Loaded
    /\ Len(file) = 2
    /\ file[2].form.rule.kind = "fixed"
    /\ file[2].form.cat = <<>>
    /\ file[2].form.rule.y \in SpanYears
    /\ Len(EventsOf(file[2].form.desc)) = 1
    /\ evaluated # {}

\* C12: within the expansion of one rule line no two Events have the same
\* date; the Events of a line are those it gives alone, so Events of
\* different lines on one date are all kept.
C12_DistinctDatesPerLine ==
    AfterLoad =>
        \A i \in 1..Len(file) :
            LET es == EventsOf(file[i].form.desc)
            IN  /\ \A a, b \in 1..Len(es) : a # b => es[a].date # es[b].date
                /\ es = load_events(<<file[i]>>, cfg)

\* C12 witness: a conditional rule of 31 December moved into January, next
\* to the annual rule 1/1: two Events of different lines on 1 January 2025
C12_Witness ==
    /\ Loaded
    /\ Len(file) = 2
    /\ \E i \in 1..2 : file[i].form.rule.kind = "cond"
    /\ Len(EventsOf(<<"A">>)) >= 2
    /\ \E a, b \in 1..Len(events) :
           /\ a # b
           /\ events[a].date = Date(2025, 1, 1)
           /\ events[b].date = Date(2025, 1, 1)

\* a is an earlier calendar date than b
Before(a, b) ==
    \/ a.year < b.year
    \/ a.year = b.year /\ a.month < b.month
    \/ a.year = b.year /\ a.month = b.month /\ a.day < b.day

\* the line of the file an Event comes from
LineOf(e) == CHOOSE i \in 1..Len(file) : file[i].form.desc = e.description

\* C13: the sequence returned by load_events is sorted ascending by date, and
\* two Events of the same date stand in the order of their lines in the file
\* (Events of one line, emitted in year order, have different dates).
C13_SortedStable ==
    AfterLoad =>
        \A a, b \in 1..Len(events) :
            a < b =>
                /\ ~Before(events[b].date, events[a].date)
                /\ events[a].date = events[b].date =>
                       LineOf(events[a]) < LineOf(events[b])
                /\ LineOf(events[a]) = LineOf(events[b]) =>
                       events[a].date.year < events[b].date.year

\* C13 witness: two Events of one date, returned in an order that is not the
\* order they were pushed in
C13_Witness ==
    /\ Loaded
    /\ events # ExpandLines(file, cfg)
    /\ \E a \in 1..(Len(events) - 1) :
           /\ events[a].date = events[a + 1].date
           /\ events[a].description = <<"A">>
           /\ events[a + 1].description = <<"B">>

\* the first day of the month after date's month
MonthAfter(date) ==
    IF date.month = 12 THEN Date(date.year + 1, 1, 1)
    ELSE Date(date.year, date.month + 1, 1)

\* the window [start_date, end_date): from the first day of the start month
\* to the first day of the month after the last displayed month
StartDate == Date(cfg.start_year, cfg.start_month, 1)

EndDate == MonthAfter(LastShown)

\* the Events of the window, in their order
WindowEvents ==
    SelectSeq(events, LAMBDA e : ~Before(e.date, StartDate) /\ Before(e.date, EndDate))

IsPrefix(p, t) == Len(p) <= Len(t) /\ SubSeq(t, 1, Len(p)) = p

\* C14: display_events_list lists exactly the Events with
\* start_date <= date < end_date, in their order, where start_date is the
\* first day of the start month and end_date the first day of the month after
\* the last displayed month (year boundaries included): an Event dated
\* end_date is not listed, one dated start_date is.
C14_ListedWindow ==
    pc = "done" =>
        /\ Len(listed) = Len(WindowEvents)
        /\ \A k \in 1..Len(listed) :
               /\ listed[k].date = WindowEvents[k].date
               /\ IsPrefix(WindowEvents[k].description, listed[k].full_description)
        /\ \A k \in 1..Len(events) :
               /\ events[k].date = EndDate =>
                      \A j \in 1..Len(listed) : listed[j].date # EndDate
               /\ events[k].date = StartDate => listed[1].date = StartDate
               /\ (\E j \in 1..Len(listed) : listed[j].date = events[k].date) <=>
                      (\E idx \in 0..(cfg.num_months - 1) :
                          /\ events[k].date.year = WindowYear(idx)
                          /\ events[k].date.month =
                                 ((cfg.start_month - 1 + idx) % 12) + 1)

\* C14 witness: a window that ends with December, with an Event on its first
\* day, listed, and one on 1 January after it, not listed
C14_Witness ==
    /\ pc = "done"
    /\ EndDate.month = 1
    /\ EndDate.year = cfg.start_year + 1
    /\ \E k \in 1..Len(events) : events[k].date = EndDate
    /\ listed # <<>>
    /\ listed[1].date = StartDate
    /\ \A j \in 1..Len(listed) : listed[j].date # EndDate

\* the description of a listed line without the label of relative days
\* (" (In .. days)" / " (.. days ago)"), which starts with a space and a
\* colour escape
Described(line) ==
    LET t == line.full_description
        at == {i \in 1..Len(t) : t[i] \in {"ESC[32m", "ESC[34m"}}
    IN  IF at = {} THEN t
        ELSE SubSeq(t, 1, (CHOOSE i \in at : \A j \in at : i <= j) - 2)

\* the English ordinal suffix of n
OrdinalSuffix(n) ==
    IF (n % 100) \in 11..13 THEN <<"t", "h">>
    ELSE CASE n % 10 = 1 -> <<"s", "t">>
           [] n % 10 = 2 -> <<"n", "d">>
           [] n % 10 = 3 -> <<"r", "d">>
           [] OTHER -> <<"t", "h">>

\* the annotation the k-th listed Event is due
DueAnnotation(e) ==
    IF /\ IsSome(e.original_year)
       /\ e.category \in {Some(Str_bday), Some(Str_anni)}
       /\ e.date.year - e.original_year[1] > 0
    THEN LET N == e.date.year - e.original_year[1]
         IN  <<" ", "(">> \o ToStr(N) \o OrdinalSuffix(N) \o <<" ">>
             \o (IF e.category = Some(Str_bday)
                 THEN <<"B", "i", "r", "t", "h", "d", "a", "y">>
                 ELSE <<"A", "n", "n", "i", "v", "e", "r", "s", "a", "r", "y">>)
             \o <<")">>
    ELSE <<>>

Str_34th_Birthday ==
    <<" ", "(", "3", "4", "t", "h", " ", "B", "i", "r", "t", "h", "d", "a", "y", ")">>

\* C15: in the events list the description of an Event is followed by
\* " (N<suffix> Birthday)" (category bday) or " (N<suffix> Anniversary)"
\* (category anni) if and only if original_year is set, the category is bday
\* or anni and N = date.year - original_year > 0, <suffix> being the English
\* ordinal suffix of N; the 2024 occurrence of a 1990 birthday reads
\* "(34th Birthday)"; the occurrence in the original year has no annotation.
C15_Annotation ==
    pc = "done" =>
        /\ Len(listed) = Len(WindowEvents)
        /\ \A k \in 1..Len(listed) :
               LET e == WindowEvents[k]
               IN  /\ Described(listed[k]) = e.description \o DueAnnotation(e)
                   /\ (e.original_year = Some(1990) /\ e.date.year = 2024
                          /\ e.category = Some(Str_bday)) =>
                          Described(listed[k]) = e.description \o Str_34th_Birthday
                   /\ e.original_year = Some(e.date.year) =>
                          Described(listed[k]) = e.description

\* C15 witness: the 2024 occurrence of a 1990 birthday, listed
C15_Witness ==
    /\ pc = "done"
    /\ \E k \in 1..Len(listed) :
           /\ listed[k].date = Date(2024, 7, 4)
           /\ Described(listed[k]) = <<"A">> \o Str_34th_Birthday

\* C30: for every Event returned by load_events, original_year is set if and
\* only if the Event comes from a fixed-date rule with category "bday" or
\* "anni"; and when original_year = y0 is set, the Event's month and day
\* equal the rule's fixed month and day, y0 <= date.year, and date.year lies
\* in [start_year, end_year_check], so the anniversary number
\* date.year - original_year is never negative.
C30_OriginalYear ==
    AfterLoad =>
        \A k \in 1..Len(events) :
            LET e == events[k]
                f == file[LineOf(e)].form
            IN  /\ IsSome(e.original_year) <=>
                       (f.rule.kind = "fixed" /\ f.cat \in {Str_bday, Str_anni})
                /\ IsSome(e.original_year) =>
                       /\ e.original_year[1] = f.rule.y
                       /\ e.date.month = f.rule.m
                       /\ e.date.day = f.rule.d
                       /\ e.original_year[1] <= e.date.year
                       /\ e.date.year \in SpanYears
                       /\ e.date.year - e.original_year[1] >= 0

\* C30 witness: a birthday of 1 January 2025 loaded for the years 2024 and
\* 2025: one Event, in 2025, the year of birth
C30_Witness ==
    /\ AfterLoad
    /\ SpanYears = 2024..2025
    /\ Len(file) = 1
    /\ file[1].form.rule.kind = "fixed"
    /\ file[1].form.rule.y = 2025
    /\ file[1].form.cat = Str_bday
    /\ Len(events) = 1
    /\ events[1].date = Date(2025, 1, 1)
    /\ events[1].original_year = Some(2025)

---------------------------------------------------------------------------
(* Properties of the calendar cells (checked under SpecStyle). *)

\* the cells of days in the row of months printed last, each with its date
\* (every row is the last one in the state that follows its printing)
LastRowCells ==
    IF grid = <<>> THEN {}
    ELSE LET r == grid[Len(grid)]
             all == {[date |-> Date(r.dates[k].year, r.dates[k].month,
                                    r.lines[l].months[k].cells[j].day),
                      cell |-> r.lines[l].months[k].cells[j]] :
                        l \in 1..Len(r.lines), k \in 1..Len(r.dates), j \in 1..7}
         IN  {c \in all : c.cell.day > 0}

\* the Events of a day, in their order
OnDay(date) == SelectSeq(events, LAMBDA e : e.date = date)

\* the escape sequences the colours of the day's first Event resolve to
\* (empty: no Event, colour unset, or no colour of the palette)
DayFg(date) ==
    IF OnDay(date) = <<>> THEN <<>> ELSE ColorCode(OnDay(date)[1].fg_color, TRUE)

DayBg(date) ==
    IF OnDay(date) = <<>> THEN <<>> ELSE ColorCode(OnDay(date)[1].bg_color, FALSE)

IsWeekendDay(date) == WeekdayOf(date) \in {6, 7}

\* C16: the cell of the current date has exactly: background = the custom
\* background of the day's Event if it resolves to a colour, else the default
\* highlight background (yellow); then foreground = the custom foreground if
\* it resolves, else the default foreground (black); nothing of the weekend
\* and Event steps (weekend colour, bold, invert) remains.
C16_TodayCell ==
    \A c \in LastRowCells :
        c.date = today =>
            c.cell.format_codes =
                (IF DayBg(c.date) # <<>> THEN DayBg(c.date) ELSE <<"ESC[43m">>)
                \o (IF DayFg(c.date) # <<>> THEN DayFg(c.date) ELSE <<"ESC[30m">>)

\* C16 witness: today is a Saturday with an Event whose foreground is red
C16_Witness ==
    \E c \in LastRowCells :
        /\ c.date = today
        /\ IsWeekendDay(c.date)
        /\ OnDay(c.date) # <<>>
        /\ c.cell.format_codes = <<"ESC[43m", "ESC[31m">>

C18_WeekdayCell ==
    \A c \in LastRowCells :
        /\ (~IsWeekendDay(c.date) /\ c.date # today) =>
               c.cell.format_codes =
                   IF OnDay(c.date) = <<>> THEN <<>>
                   ELSE IF DayFg(c.date) # <<>> \/ DayBg(c.date) # <<>>
                   THEN DayBg(c.date) \o DayFg(c.date) \o <<BOLD_CODE>>
                   ELSE <<"ESC[7m">>
        /\ LET n == Len(c.cell.format_codes)
           IN  /\ SubSeq(c.cell.text, 1, n) = c.cell.format_codes
               /\ SubSeq(c.cell.text, n + 1, n + 2) =
                      (IF c.cell.day < 10 THEN <<" ">> ELSE <<>>) \o ToStr(c.cell.day)
               /\ c.cell.text[n + 3] = RESET_CODE

\* C18 witness: a Thursday, not today, with an Event whose only colour is a
\* blue background
C18_Witness ==
    \E c \in LastRowCells :
        /\ ~IsWeekendDay(c.date)
        /\ c.date # today
        /\ c.cell.format_codes = <<"ESC[44m", BOLD_CODE>>
        /\ c.cell.text = <<"ESC[44m", BOLD_CODE, " ", "4", RESET_CODE, " ">>

\* the name is one of the eight of the palette, in any case
NamesColour(name) == \E i \in 1..Len(Palette) : Palette[i] = to_lowercase(name)

\* the Event with every colour that names no palette colour unset
WithoutUnknown(e) ==
    [e EXCEPT !.fg_color = IF IsSome(@) /\ ~NamesColour(@[1]) THEN None ELSE @,
              !.bg_color = IF IsSome(@) /\ ~NamesColour(@[1]) THEN None ELSE @]

EventsWithoutUnknown == [k \in 1..Len(events) |-> WithoutUnknown(events[k])]

\* C19: a colour name outside the palette (matched in any case) resolves to
\* no colour and raises no error: the calendar cells and the lines of the
\* events list are those of the same Events with that colour unset.
C19_UnknownColour ==
    /\ pc # "panic"
    /\ grid # <<>> =>
           grid[Len(grid)].lines =
               WeekLines(grid[Len(grid)].dates, cfg, EventsWithoutUnknown, today)
    /\ pc = "done" => listed = display_events_list(cfg, EventsWithoutUnknown, today)
    /\ \A c \in LastRowCells :
           OnDay(c.date) # <<>> =>
               /\ OnDay(c.date)[1].fg_color = Some(Str_pink) => DayFg(c.date) = <<>>
               /\ OnDay(c.date)[1].bg_color = Some(Str_pink) => DayBg(c.date) = <<>>
               /\ OnDay(c.date)[1].fg_color = Some(Str_Red) =>
                      DayFg(c.date) = <<"ESC[31m">>

\* C19 witness: an Event whose colours are both unknown, on a Thursday that
\* is not today: inverted in the calendar, without prefix in the list
C19_Witness ==
    /\ pc = "done"
    /\ Len(events) = 1
    /\ events[1].fg_color = Some(Str_pink)
    /\ events[1].bg_color = Some(Str_pink)
    /\ Len(listed) = 1
    /\ listed[1].prefix_code = <<>>
    /\ \E c \in LastRowCells :
           /\ c.date = events[1].date
           /\ c.cell.format_codes = <<"ESC[7m">>

\* the first Event of every day that has Events
FirstOfDays == SelectSeq(events, LAMBDA e : e = OnDay(e.date)[1])

\* C29: when several Events fall on the same date, the calendar cell for
\* that date takes its custom colours only from the first of them in the
\* sorted Event sequence, the one emitted by the earliest rule line of the
\* file; the colours of later same-date Events never affect the cell, even
\* when the first Event has no custom colour.
C29_FirstEventColours ==
    /\ grid # <<>> =>
           grid[Len(grid)].lines =
               WeekLines(grid[Len(grid)].dates, cfg, FirstOfDays, today)
    /\ \A c \in LastRowCells :
           Len(OnDay(c.date)) > 1 =>
               LET first == OnDay(c.date)[1]
               IN  /\ first.description = file[1].form.desc
                   /\ first.fg_color =
                          (IF file[1].form.fg = <<>> THEN None ELSE Some(file[1].form.fg))
                   /\ first.bg_color = None
                   /\ c.date # today =>
                          c.cell.format_codes =
                              IF first.fg_color = None THEN <<"ESC[7m">>
                              ELSE <<"ESC[31m", BOLD_CODE>>
                   /\ c.date = today =>
                          c.cell.format_codes =
                              <<"ESC[43m">>
                              \o (IF first.fg_color = None THEN <<"ESC[30m">>
                                  ELSE <<"ESC[31m">>)

\* C29 witness: Thursday 4 July 2024, not today, with an Event of the first
\* line without colours and an Event of the second line with a red
\* foreground and a blue background: the cell is inverted and has no colour
C29_Witness ==
    /\ Len(events) = 2
    /\ events[1].date = events[2].date
    /\ events[1].fg_color = None /\ events[1].bg_color = None
    /\ events[2].fg_color = Some(Str_red) /\ events[2].bg_color = Some(Str_blue)
    /\ \E c \in LastRowCells :
           /\ c.date = events[1].date
           /\ c.date # today
           /\ c.cell.format_codes = <<"ESC[7m">>

---------------------------------------------------------------------------
(* Properties of the layout (checked under SpecLayout). *)

\* the month at offset idx of the window, counting months from start_month
\* of start_year and passing to January of the next year after December
WindowMonth(idx) ==
    Date(WindowYear(idx), ((cfg.start_month - 1 + idx) % 12) + 1, 1)

\* the months per row: num_columns, or 1 for a window of one month
PerRow == IF cfg.num_months = 1 THEN 1 ELSE cfg.num_columns

\* the largest number of week rows among the months of row r
RowWeeks(r) ==
    LET weeks == {WeeksOf(shown[r][k], cfg.monday_first) : k \in 1..Len(shown[r])}
    IN  CHOOSE w \in weeks : \A v \in weeks : v <= w

\* C22: display_calendars shows each of the num_months months of the window
\* exactly once, in chronological order starting at start_month/start_year
\* with year roll-over after December, grouped into consecutive rows of
\* num_columns months (1 per row when num_months = 1, the last row possibly
\* shorter); each row prints as many week lines as the largest
\* weeks_in_month among the months of that row only.
C22_Layout ==
    /\ Len(grid) = Len(shown)
    /\ \A r \in 1..Len(shown) :
           /\ Len(shown[r]) =
                  IF r * PerRow <= cfg.num_months THEN PerRow
                  ELSE cfg.num_months - (r - 1) * PerRow
           /\ Len(shown[r]) >= 1
           /\ \A k \in 1..Len(shown[r]) :
                  shown[r][k] = WindowMonth((r - 1) * PerRow + k - 1)
           /\ grid[r].dates = shown[r]
           /\ grid[r].max_weeks = RowWeeks(r)
           /\ Len(grid[r].lines) = RowWeeks(r)
           /\ \A i \in 1..Len(grid[r].lines) :
                  Len(grid[r].lines[i].months) = Len(shown[r])
    /\ pc \in {"events_list", "done"} =>
           /\ Len(shown) * PerRow >= cfg.num_months
           /\ (Len(shown) - 1) * PerRow < cfg.num_months
           /\ \A idx \in 0..(cfg.num_months - 1) :
                  Cardinality({rk \in (1..Len(shown)) \X (1..PerRow) :
                                  /\ rk[2] <= Len(shown[rk[1]])
                                  /\ shown[rk[1]][rk[2]] = WindowMonth(idx)}) = 1

\* C22 witness: thirteen months from November 2023 in four columns: three
\* rows of four months and a row of one, the first row passing from
\* December 2023 to January 2024, and two rows of different heights
C22_Witness ==
    /\ pc = "events_list"
    /\ cfg.num_months = 13 /\ cfg.num_columns = 4 /\ cfg.start_month = 11
    /\ Len(shown) = 4
    /\ Len(shown[4]) = 1
    /\ shown[1][2] = Date(2023, 12, 1) /\ shown[1][3] = Date(2024, 1, 1)
    /\ shown[4][1] = Date(2024, 11, 1)
    /\ \E r \in 1..4 : \E q \in 1..4 : Len(grid[r].lines) # Len(grid[q].lines)

---------------------------------------------------------------------------
(* Properties of the lines (checked under SpecLines). *)

\* metadata field i of a form: unset when missing or empty once trimmed
FieldOf(f, i) ==
    IF i <= Len(f.fields) /\ Trim(f.fields[i]) # <<>>
    THEN Some(Trim(f.fields[i])) ELSE None

IsMetaFile == Len(file) = 1 /\ file[1].form.shape \in {"closed", "open", "plain"}

\* C23: parsing the part of a line after the first ';': if it starts with
\* '[' and contains ']', the text between them split on ',' gives category,
\* fg_color, bg_color from fields 1..3 (each trimmed; an empty or missing
\* field is unset, never the empty string; a 4th field is ignored) and the
\* description is the trimmed text after that ']'; if it starts with '[' but
\* has no ']', the whole right side is the description and category,
\* fg_color and bg_color are all unset; parsing never fails.
C23_Metadata ==
    (pc # "main" /\ IsMetaFile) =>
        /\ Len(events) = 1
        /\ LET e == events[1]
               f == file[1].form
           IN  /\ e.date = Date(2024, 7, 4)
               /\ e.category # Some(<<>>) /\ e.fg_color # Some(<<>>)
               /\ e.bg_color # Some(<<>>)
               /\ f.shape = "closed" =>
                      /\ e.category = FieldOf(f, 1)
                      /\ e.fg_color = FieldOf(f, 2)
                      /\ e.bg_color = FieldOf(f, 3)
                      /\ e.description = Trim(f.desc)
               /\ f.shape \in {"open", "plain"} =>
                      /\ e.category = None /\ e.fg_color = None /\ e.bg_color = None
                      /\ e.description = Trim(RightSide(f))

\* C23 witness: the line "7/4; [ w ,,red,red]x]y" is loaded with category
\* "w", no foreground, background "red" and description "x]y"
C23_Witness ==
    /\ pc # "main"
    /\ IsMetaFile
    /\ file[1].form.shape = "closed"
    /\ file[1].form.fields = <<<<" ", "w", " ">>, <<>>, Str_red, Str_red>>
    /\ Len(events) = 1
    /\ events[1].category = Some(<<"w">>)
    /\ events[1].fg_color = None
    /\ events[1].bg_color = Some(Str_red)
    /\ events[1].description = <<"x", "]", "y">>

SkipShapes == {"malformed", "comment", "blank"}

IsSkipFile == \E i \in 1..Len(file) : file[i].form.shape \in SkipShapes

\* the file without its malformed, comment and blank lines
KeptLines == SelectSeq(file, LAMBDA l : l.form.shape \notin SkipShapes)

\* C24: a rule line whose rule text is malformed (matches no grammar, or
\* fails the parse of the rule kind it triggers) contributes zero Events for
\* every year of the span, and the Events produced by every other line of
\* the file are exactly those produced when the malformed line is absent;
\* blank lines and lines starting with '#' likewise contribute nothing.
C24_MalformedSkipped ==
    (pc # "main" /\ IsSkipFile) =>
        /\ events = load_events(KeptLines, cfg)
        /\ \A k \in 1..Len(events) : events[k].description # <<"M">>
        /\ Len(events) >= Len(KeptLines)
        /\ \A i \in 1..Len(file) :
               /\ file[i].form.shape = "malformed" =>
                      \A year \in SpanYears : <<file[i].form.rule, year>> \in evaluated
               /\ file[i].form.shape \in {"comment", "blank"} =>
                      \A c \in evaluated : c[1] \in {<<"7", "/", "4">>, <<"E", "+", "1">>}

\* C24 witness: the rule 7/4?2*1 (an operator that is neither '+' nor '-')
\* between the lines described "A" and "B", over the years 2023 (when 4 July
\* is a Tuesday) and 2024: the Events are the two of "A" and the two of "B"
C24_Witness ==
    /\ pc # "main"
    /\ Len(file) = 3
    /\ file[2].form.shape = "malformed"
    /\ file[2].form.rule = <<"7", "/", "4", "?", "2", "*", "1">>
    /\ SpanYears = 2023..2024
    /\ Len(events) = 4
    /\ Len(EventsOf(<<"A">>)) = 2
    /\ Len(EventsOf(<<"B">>)) = 2

IsNoSemicolonFile == Len(file) = 1 /\ file[1].form.shape = "no_semicolon"

\* C26: for a line containing no ';', the rule text handed to
\* calculate_date_from_rule is the entire trimmed line, not the part before
\* the first whitespace; hence for a no-';' line that contains whitespace
\* calculate_date_from_rule yields none for every year ("7/4 Independence
\* Day" produces no Event), and every Event produced by the evaluator from a
\* no-';' line has an empty description.
C26_NoSemicolon ==
    (pc # "main" /\ IsNoSemicolonFile) =>
        LET line == file[1].text
        IN  /\ evaluated = {<<line, year>> : year \in SpanYears}
            /\ (\E i \in 1..Len(line) : IsSpace(line[i])) => events = <<>>
            /\ \A k \in 1..Len(events) : events[k].description = <<>>

IsOffsetFile == Len(file) = 1 /\ file[1].form.shape = "offset"

\* d lies in the window: from the first day of the start month to the first
\* day of the month after the last month of the window
InWindow(d) == ~DateLess(d, StartDate) /\ DateLess(d, WindowMonth(cfg.num_months))

\* C27: window completeness for computed rules: for every non-fixed rule r
\* and every date d inside the display window [start_date, end_date), if
\* there is any year Y with calculate_date_from_rule(r, Y) = d, then
\* load_events returns an Event of r dated d.
C27_WindowComplete ==
    (pc # "main" /\ IsOffsetFile) =>
        \A Y \in (cfg.start_year - 1)..(end_year_check(cfg) + 1) :
            LET d == calculate_date_from_rule(file[1].form.rule, Y)
            IN  (IsSome(d) /\ InWindow(d[1])) =>
                    \E k \in 1..Len(events) :
                        /\ events[k].date = d[1]
                        /\ events[k].description = file[1].form.desc

=============================================================================
